---- MODULE Spec2Model ----
(***************************************************************************)
(* Ledger of the contractor-management backend: Period Earnings Records,   *)
(* Payments, Allocations and Deposit Splits of contractors and managers,   *)
(* with the handlers that change them: payment recording with FIFO or      *)
(* manual allocation, payment deletion, the Reconciler, dual tracking.     *)
(*                                                                         *)
(* Money is counted in whole cents (the tables hold two-decimal amounts);  *)
(* a Decimal -> float -> str -> Decimal round trip of a two-decimal amount *)
(* is exact, so an amount is the same integer on both sides of a remote    *)
(* call.  A handler is a sequence of remote persistence calls; each call   *)
(* is one step of the request that runs it, and the steps of two workers   *)
(* interleave.  A worker keeps the request it ran last until it takes the  *)
(* next one, with the ledger as it was when that request started.          *)
(***************************************************************************)
EXTENDS Integers, Sequences, FiniteSets, TLC

VARIABLES
    contractor_earnings,   \* table contractor_earnings: row i has id i
    contractor_payments,   \* table contractor_payments: row i has id i
    payment_allocations,   \* table payment_allocations, in insertion order
    paystub_account_splits,\* table paystub_account_splits joined with bank_accounts
    manager_earnings,      \* table manager_earnings: row i has id i
    manager_payments,      \* table manager_payments: row i has id i
    manager_payment_allocations, \* table manager_payment_allocations
    paystubs,              \* table paystubs: row i has id i
    contractor_assignments,\* table contractor_assignments: row i has id i
    manager_assignments,   \* table manager_assignments: row i has id i
    req                    \* per worker: the request it runs, or the one it ran last

vars == <<contractor_earnings, contractor_payments, payment_allocations,
          paystub_account_splits, manager_earnings, manager_payments,
          manager_payment_allocations, paystubs, contractor_assignments,
          manager_assignments, req>>

contractor_tables == <<contractor_earnings, contractor_payments, payment_allocations,
                       paystub_account_splits>>

manager_tables == <<manager_earnings, manager_payments, manager_payment_allocations>>

upload_tables == <<paystubs, contractor_assignments, manager_assignments>>

----------------------------------------------------------------------------
(* Bounds of the model *)

MaxEarnings == 2
MaxPayments == 2
MaxDate == 2
MaxTotal == 2
MaxManual == 1
MaxSplits == 1
MaxAmount == 3
MaxLines == 2
MaxHours == 1
MaxRate == 2
MaxLineAmount == 2
MaxGross == 3
MaxPaystubs == 1
MaxFiles == 1
MaxAssignments == 1
MaxContractRate == 1
MaxFlatRate == 3
MaxUploads == 2

Contractors == {"c1", "c2"}
Managers == {"m1"}
Procs == {1, 2}
Dates == 1..MaxDate
Totals == 1..MaxTotal
Amounts == 1..MaxAmount
OwnerTypes == {"contractor", "admin"}
Hours == 0..MaxHours
Rates == 0..MaxRate
LineAmounts == 1..MaxLineAmount
Grosses == 0..MaxGross
FixedRates == 1..MaxRate
Percentages == {50, 100}
FileHashes == 1..MaxFiles

\* Decimal('0.01'), the Reconciler's tolerance, in cents
Tolerance == 1

\* Decimal('0.02'), the tolerance of validate_earnings, in cents
ReconciliationTolerance == 2

----------------------------------------------------------------------------
(* Helpers *)

Min(a, b) == IF a <= b THEN a ELSE b

Max(a, b) == IF a >= b THEN a ELSE b

Abs(a) == IF a >= 0 THEN a ELSE -a

RECURSIVE SumAmount(_)
SumAmount(s) == IF s = <<>> THEN 0 ELSE Head(s).amount + SumAmount(Tail(s))

RECURSIVE SumAllocated(_)
SumAllocated(s) ==
    IF s = <<>> THEN 0 ELSE Head(s).amount_allocated + SumAllocated(Tail(s))

Rows(table) == {table[i] : i \in DOMAIN table}

----------------------------------------------------------------------------
(* Requests *)

Idle ==
    [pc |-> "idle", op |-> "none", payee |-> "none", amount |-> 0, manual |-> <<>>,
     payment_id |-> 0, unpaid |-> <<>>, allocations |-> <<>>, idx |-> 0,
     earning |-> <<>>, response |-> "none", result |-> <<>>, before |-> <<>>,
     earnings_list |-> <<>>, paystub_data |-> <<>>, assignment |-> <<>>,
     errors |-> <<>>, assignment_id |-> 0, update_data |-> <<>>,
     file_hash |-> 0]

Snapshot ==
    [earnings |-> contractor_earnings, payments |-> contractor_payments,
     allocations |-> payment_allocations]

Init ==
    /\ contractor_earnings = <<>>
    /\ contractor_payments = <<>>
    /\ payment_allocations = <<>>
    /\ paystub_account_splits = <<>>
    /\ manager_earnings = <<>>
    /\ manager_payments = <<>>
    /\ manager_payment_allocations = <<>>
    /\ paystubs = <<>>
    /\ contractor_assignments = <<>>
    /\ manager_assignments = <<>>
    /\ req = [p \in Procs |-> Idle]

\* a worker takes a new request when it runs none; what it ran last stays in
\* req until then
Free(p) == req[p].pc \in {"idle", "done", "failed"}

----------------------------------------------------------------------------
(* PaymentService: pure parts *)

OutstandingStatuses == {"unpaid", "partially_paid"}

\* the rows the query of get_unpaid_earnings selects for a contractor
UnpaidRows(table, contractor_id) ==
    {e \in Rows(table) : /\ e.contractor_id = contractor_id
                         /\ e.payment_status \in OutstandingStatuses}

\* every listing of the rows S that a query ordered by pay_period_begin can
\* return: rows with the same pay_period_begin come in any order
OrderedAscending(S) ==
    {s \in [1..Cardinality(S) -> S] :
        /\ \A i, j \in 1..Cardinality(S) : i # j => s[i] # s[j]
        /\ \A i, j \in 1..Cardinality(S) :
              i < j => s[i].pay_period_begin <= s[j].pay_period_begin}

OrderedDescending(S) ==
    {s \in [1..Cardinality(S) -> S] :
        /\ \A i, j \in 1..Cardinality(S) : i # j => s[i] # s[j]
        /\ \A i, j \in 1..Cardinality(S) :
              i < j => s[i].pay_period_begin >= s[j].pay_period_begin}

get_unpaid_earnings_desc(contractor_id) ==
    OrderedDescending(UnpaidRows(contractor_earnings, contractor_id))

\* get_unpaid_earnings: the results the query may return, oldest first
get_unpaid_earnings(contractor_id) ==
    OrderedAscending(UnpaidRows(contractor_earnings, contractor_id))

\* allocate_payment_fifo: walk the list, skip pending <= 0, allocate
\* min(remaining, pending), stop when nothing remains
\* an allocation that looks at the payments table as well: no entry is larger
\* than the number of payment rows
RECURSIVE allocate_payment_fifo_stateful(_, _)
allocate_payment_fifo_stateful(remaining, earnings_list) ==
    IF earnings_list = <<>> \/ remaining <= 0 THEN <<>>
    ELSE LET earning == Head(earnings_list)
             pending == earning.amount_pending
             allocation_amount ==
                 Min(Min(remaining, pending), Len(contractor_payments))
         IN  IF pending <= 0
             THEN allocate_payment_fifo_stateful(remaining, Tail(earnings_list))
             ELSE <<[earning_id |-> earning.id, amount |-> allocation_amount]>>
                  \o allocate_payment_fifo_stateful(remaining - allocation_amount,
                                                    Tail(earnings_list))

RECURSIVE allocate_payment_fifo(_, _)
allocate_payment_fifo(remaining, earnings_list) ==
    IF earnings_list = <<>> \/ remaining <= 0 THEN <<>>
    ELSE LET earning == Head(earnings_list)
             pending == earning.amount_pending
             allocation_amount == Min(remaining, pending)
         IN  IF pending <= 0
             THEN allocate_payment_fifo(remaining, Tail(earnings_list))
             ELSE <<[earning_id |-> earning.id, amount |-> allocation_amount]>>
                  \o allocate_payment_fifo(remaining - allocation_amount,
                                           Tail(earnings_list))

\* the status derivation of update_earning_payment_status
payment_status_of(new_paid, new_pending) ==
    IF new_pending <= 0 THEN "paid"
    ELSE IF new_paid > 0 THEN "partially_paid"
    ELSE "unpaid"

earning_update_ignoring_paid(earning, allocation_amount) ==
    LET new_paid == allocation_amount
        new_pending == earning.contractor_total_earnings - new_paid
    IN  [amount_paid |-> new_paid,
         amount_pending |-> new_pending,
         payment_status |-> payment_status_of(new_paid, new_pending)]

\* update_data of update_earning_payment_status, computed from the row read
earning_update(earning, allocation_amount) ==
    LET new_paid == earning.amount_paid + allocation_amount
        new_pending == earning.contractor_total_earnings - new_paid
    IN  [amount_paid |-> new_paid,
         amount_pending |-> new_pending,
         payment_status |-> payment_status_of(new_paid, new_pending)]

\* .update(update_data).eq("id", ...): the named columns of the stored row change
WithUpdate(row, update_data) ==
    [f \in DOMAIN row |->
        IF f \in DOMAIN update_data THEN update_data[f] ELSE row[f]]

\* the fresh row save_earnings inserts from calculate_earnings' result: nothing
\* paid, the whole total pending; the dual-tracking columns, which the insert
\* does not name, are written 0 and "none"
NewEarning(id, contractor_id, pay_period_begin, contractor_total_earnings) ==
    [id |-> id, contractor_id |-> contractor_id,
     pay_period_begin |-> pay_period_begin,
     contractor_total_earnings |-> contractor_total_earnings,
     amount_paid |-> 0,
     amount_pending |-> contractor_total_earnings,
     payment_status |-> "unpaid",
     expected_earnings |-> 0, actual_payments |-> 0,
     payment_variance |-> 0, variance_status |-> "none"]

\* the allocation lists a caller may supply (allocate_to_earnings)
ManualAllocations ==
    UNION {[1..n -> [earning_id : DOMAIN contractor_earnings, amount : Amounts]] :
           n \in 1..MaxManual}

\* get_earnings_summary: the totals over all earnings rows of a contractor
RECURSIVE get_earnings_summary(_, _)
get_earnings_summary(earnings, contractor_id) ==
    IF earnings = <<>>
    THEN [total_earned |-> 0, total_paid |-> 0, total_pending |-> 0,
          earnings_count |-> 0]
    ELSE LET e == Head(earnings)
             rest == get_earnings_summary(Tail(earnings), contractor_id)
         IN  IF e.contractor_id # contractor_id THEN rest
             ELSE [total_earned |-> rest.total_earned + e.contractor_total_earnings,
                   total_paid |-> rest.total_paid + e.amount_paid,
                   total_pending |-> rest.total_pending + e.amount_pending,
                   earnings_count |-> rest.earnings_count + 1]

----------------------------------------------------------------------------
(* Upload of a paystub matched to an assignment: the earnings row is saved *)

upload_paystub_with_earnings ==
    /\ Free(1)
    /\ Len(contractor_earnings) < MaxEarnings
    /\ \E c \in Contractors, d \in Dates, total \in Totals :
          contractor_earnings' =
              Append(contractor_earnings,
                     NewEarning(Len(contractor_earnings) + 1, c, d, total))
    /\ req' = [req EXCEPT ![1] = Idle]
    /\ UNCHANGED <<upload_tables, contractor_payments, payment_allocations, paystub_account_splits,
                   manager_tables>>

\* assign_accounts / check_paystub_accounts for one account of a paystub: the
\* split row is inserted unless the paystub has one for that account; there is
\* one account per owner type
assign_accounts ==
    /\ Free(1)
    /\ Len(paystub_account_splits) < MaxSplits
    /\ \E ps \in DOMAIN contractor_earnings, o \in OwnerTypes, a \in Amounts :
          /\ \A i \in DOMAIN paystub_account_splits :
                ~ (/\ paystub_account_splits[i].paystub_id = ps
                   /\ paystub_account_splits[i].owner_type = o)
          /\ paystub_account_splits' =
                Append(paystub_account_splits,
                       [paystub_id |-> ps, owner_type |-> o, amount |-> a])
    /\ req' = [req EXCEPT ![1] = Idle]
    /\ UNCHANGED <<upload_tables, contractor_earnings, contractor_payments, payment_allocations,
                   manager_tables>>

----------------------------------------------------------------------------
(* POST /payments: PaymentService.record_payment *)

\* the request (a payee, an amount > 0 and, optionally, allocate_to_earnings)
\* and Step 1, the payment row
record_payment_insert(p, manual_allocations) ==
    /\ Free(p)
    /\ Len(contractor_payments) < MaxPayments
    /\ \E c \in Contractors, a \in Amounts, m \in manual_allocations :
          LET payment_id == Len(contractor_payments) + 1 IN
          /\ contractor_payments' =
                Append(contractor_payments,
                       [id |-> payment_id, contractor_id |-> c, amount |-> a])
          /\ req' = [req EXCEPT ![p] =
                       [Idle EXCEPT !.op = "record_payment",
                                    !.payee = c, !.amount = a, !.manual = m,
                                    !.payment_id = payment_id,
                                    !.allocations = m, !.idx = 1,
                                    !.before = <<Snapshot>>,
                                    !.pc = IF m # <<>> THEN "insert_allocation"
                                           ELSE "get_unpaid"]]
    /\ UNCHANGED <<upload_tables, contractor_earnings, payment_allocations, paystub_account_splits,
                   manager_tables>>

\* a payment without allocate_to_earnings: FIFO
record_payment(p) == record_payment_insert(p, {<<>>})

\* a payment with a caller-supplied allocation list
record_payment_manual(p) == record_payment_insert(p, ManualAllocations)

\* Step 2 without manual allocations: get_unpaid_earnings, allocate_payment_fifo
record_payment_allocate(p) ==
    /\ req[p].pc = "get_unpaid"
    /\ \E unpaid_earnings \in get_unpaid_earnings(req[p].payee) :
          LET allocations == allocate_payment_fifo(req[p].amount, unpaid_earnings) IN
          req' = [req EXCEPT ![p].unpaid = unpaid_earnings,
                             ![p].allocations = allocations,
                             ![p].pc = IF allocations = <<>> THEN "done"
                                       ELSE "insert_allocation",
                             ![p].response = IF allocations = <<>> THEN "201"
                                             ELSE "none"]
    /\ UNCHANGED <<upload_tables, contractor_tables, manager_tables>>

\* Step 3, per allocation: the allocation row
record_payment_save_allocation(p) ==
    /\ req[p].pc = "insert_allocation"
    /\ req[p].op = "record_payment"
    /\ LET alloc == req[p].allocations[req[p].idx] IN
          payment_allocations' =
              Append(payment_allocations,
                     [payment_id |-> req[p].payment_id,
                      earning_id |-> alloc.earning_id,
                      amount_allocated |-> alloc.amount])
    /\ req' = [req EXCEPT ![p].pc = "read_earning"]
    /\ UNCHANGED <<upload_tables, contractor_earnings, contractor_payments, paystub_account_splits,
                   manager_tables>>

\* update_earning_payment_status: the select of the current row
update_earning_payment_status_read(p) ==
    /\ req[p].pc = "read_earning"
    /\ LET earning_id == req[p].allocations[req[p].idx].earning_id IN
          req' = IF earning_id \in DOMAIN contractor_earnings
                 THEN [req EXCEPT ![p].earning = <<contractor_earnings[earning_id]>>,
                                  ![p].pc = "update_earning"]
                 ELSE [req EXCEPT ![p].pc = "failed", ![p].response = "500"]
    /\ UNCHANGED <<upload_tables, contractor_tables, manager_tables>>

\* update_earning_payment_status: the update, from the row that was read
update_earning_payment_status_write(p) ==
    /\ req[p].pc = "update_earning"
    /\ LET earning == req[p].earning[1]
           alloc == req[p].allocations[req[p].idx]
           last == req[p].idx = Len(req[p].allocations)
       IN  /\ contractor_earnings' =
                 [contractor_earnings EXCEPT ![earning.id] =
                     WithUpdate(@, earning_update(earning, alloc.amount))]
           /\ req' = [req EXCEPT ![p].idx = @ + 1,
                                 ![p].earning = <<>>,
                                 ![p].pc = IF last THEN "done" ELSE "insert_allocation",
                                 ![p].response = IF last THEN "201" ELSE "none"]
    /\ UNCHANGED <<upload_tables, contractor_payments, payment_allocations, paystub_account_splits,
                   manager_tables>>

----------------------------------------------------------------------------
(* DELETE /payments/{payment_id} *)

\* the request and the router's check that the payment exists; when the worker
\* has just recorded this payment, the ledger before it is kept for comparison
delete_payment_route(p) ==
    /\ Free(p)
    /\ \E payment_id \in 1..MaxPayments :
          req' = [req EXCEPT ![p] =
                    [Idle EXCEPT !.op = "delete_payment",
                                 !.payment_id = payment_id,
                                 !.before =
                                    IF /\ req[p].op = "record_payment"
                                       /\ req[p].pc = "done"
                                       /\ req[p].payment_id = payment_id
                                    THEN req[p].before ELSE <<>>,
                                 !.pc = IF payment_id \in DOMAIN contractor_payments
                                        THEN "delete_payment" ELSE "failed",
                                 !.response =
                                    IF payment_id \in DOMAIN contractor_payments
                                    THEN "none" ELSE "404"]]
    /\ UNCHANGED <<upload_tables, contractor_tables, manager_tables>>

\* PaymentService.delete_payment(payment_id): PaymentService defines no such
\* method; the call raises AttributeError, which the router turns into a 500
delete_payment(p) ==
    /\ req[p].pc = "delete_payment"
    /\ req' = [req EXCEPT ![p].pc = "failed", ![p].response = "500"]
    /\ UNCHANGED <<upload_tables, contractor_tables, manager_tables>>

----------------------------------------------------------------------------
(* A remote persistence call of a recording raises *)

\* record_payment logs the exception and re-raises it, the router answers 500;
\* nothing that the calls before it wrote is undone
remote_call_fails(p) ==
    /\ req[p].op = "record_payment"
    /\ req[p].pc \in {"get_unpaid", "insert_allocation", "read_earning",
                      "update_earning"}
    /\ req' = [req EXCEPT ![p].pc = "failed", ![p].response = "500"]
    /\ UNCHANGED <<upload_tables, contractor_tables, manager_tables>>

----------------------------------------------------------------------------
(* The Reconciler: BankAccountService.sync_earnings_payment_status *)

\* the sum of all splits of a paystub, whoever owns the account
RECURSIVE deposit_of_any_owner(_, _)
deposit_of_any_owner(splits, paystub_id) ==
    IF splits = <<>> THEN 0
    ELSE (IF Head(splits).paystub_id = paystub_id
          THEN Head(splits).amount ELSE 0)
         + deposit_of_any_owner(Tail(splits), paystub_id)

\* the sum of a paystub's splits whose account owner_type is 'contractor'
RECURSIVE contractor_deposit(_, _)
contractor_deposit(splits, paystub_id) ==
    IF splits = <<>> THEN 0
    ELSE (IF /\ Head(splits).paystub_id = paystub_id
             /\ Head(splits).owner_type = "contractor"
          THEN Head(splits).amount ELSE 0)
         + contractor_deposit(Tail(splits), paystub_id)

variance_status_of(variance) ==
    IF Abs(variance) <= Tolerance THEN "correct"
    ELSE IF variance > 0 THEN "overpaid"
    ELSE "underpaid"

\* the payment status the Reconciler sets
sync_payment_status(deposit, expected) ==
    IF deposit >= expected - Tolerance THEN "paid"
    ELSE IF deposit > 0 THEN "partially_paid"
    ELSE "unpaid"

\* the update sync_earnings_payment_status writes
sync_update_data(expected, deposit) ==
    [expected_earnings |-> expected,
     actual_payments |-> deposit,
     amount_paid |-> deposit,
     amount_pending |-> expected - deposit,
     payment_variance |-> deposit - expected,
     variance_status |-> variance_status_of(deposit - expected),
     payment_status |-> sync_payment_status(deposit, expected)]

\* the request and the selects: the earnings row of the paystub, then its splits;
\* when the worker has just run the Reconciler for this paystub, the row as
\* that run left it is kept for comparison
sync_earnings_payment_status_read(p) ==
    /\ Free(p)
    /\ \E paystub_id \in 1..MaxEarnings :
          req' = [req EXCEPT ![p] =
                    IF paystub_id \in DOMAIN contractor_earnings
                    THEN [Idle EXCEPT
                            !.op = "sync_earnings_payment_status",
                            !.payment_id = paystub_id,
                            !.earning = <<contractor_earnings[paystub_id]>>,
                            !.amount =
                               contractor_deposit(paystub_account_splits, paystub_id),
                            !.before =
                               IF /\ req[p].op = "sync_earnings_payment_status"
                                  /\ req[p].pc = "done"
                                  /\ req[p].payment_id = paystub_id
                               THEN <<contractor_earnings[paystub_id]>> ELSE <<>>,
                            !.pc = "sync_update"]
                    ELSE [Idle EXCEPT
                            !.op = "sync_earnings_payment_status",
                            !.payment_id = paystub_id,
                            !.pc = "done"]]
    /\ UNCHANGED <<upload_tables, contractor_tables, manager_tables>>

\* a Reconciler that adds the deposit to what the row has as paid
sync_earnings_payment_status_write_accumulating(p) ==
    /\ req[p].pc = "sync_update"
    /\ LET earning == req[p].earning[1]
           paid == earning.amount_paid + req[p].amount
       IN  contractor_earnings' =
              [contractor_earnings EXCEPT ![earning.id] =
                  WithUpdate(@, sync_update_data(earning.contractor_total_earnings,
                                                 paid))]
    /\ req' = [req EXCEPT ![p] =
                 [Idle EXCEPT !.op = "sync_earnings_payment_status",
                              !.payment_id = req[p].payment_id,
                              !.before = req[p].before, !.pc = "done"]]
    /\ UNCHANGED <<upload_tables, contractor_payments, payment_allocations, paystub_account_splits,
                   manager_tables>>

\* the update of the earnings row
sync_earnings_payment_status_write(p) ==
    /\ req[p].pc = "sync_update"
    /\ LET earning == req[p].earning[1] IN
          contractor_earnings' =
              [contractor_earnings EXCEPT ![earning.id] =
                  WithUpdate(@, sync_update_data(earning.contractor_total_earnings,
                                                 req[p].amount))]
    /\ req' = [req EXCEPT ![p] =
                 [Idle EXCEPT !.op = "sync_earnings_payment_status",
                              !.payment_id = req[p].payment_id,
                              !.before = req[p].before, !.pc = "done"]]
    /\ UNCHANGED <<upload_tables, contractor_payments, payment_allocations, paystub_account_splits,
                   manager_tables>>

----------------------------------------------------------------------------
(* Dual tracking: EarningsCalculator.calculate_earnings_with_dual_tracking *)

\* the record the function returns for an expected total and the payee's deposits
dual_tracking_earnings(expected_total, contractor_actual) ==
    [expected_earnings |-> expected_total,
     actual_payments |-> contractor_actual,
     payment_variance |-> contractor_actual - expected_total,
     variance_status |->
        IF Abs(contractor_actual - expected_total) <= Tolerance THEN "correct"
        ELSE IF contractor_actual - expected_total > Tolerance THEN "overpaid"
        ELSE "underpaid",
     payment_status |-> "unpaid",
     amount_paid |-> 0,
     amount_pending |-> contractor_actual]

\* the loop over the paystub's splits: contractor_actual and admin_actual
RECURSIVE dual_actuals(_, _)
dual_actuals(splits, paystub_id) ==
    IF splits = <<>> THEN [contractor_actual |-> 0, admin_actual |-> 0]
    ELSE LET split == Head(splits)
             rest == dual_actuals(Tail(splits), paystub_id)
         IN  IF split.paystub_id # paystub_id THEN rest
             ELSE IF split.owner_type = "contractor"
             THEN [rest EXCEPT !.contractor_actual = @ + split.amount]
             ELSE IF split.owner_type = "admin"
             THEN [rest EXCEPT !.admin_actual = @ + split.amount]
             ELSE rest

\* the expected total is the one calculate_earnings gave when the paystub was
\* uploaded (same paystub data, same assignment); the splits are read now
calculate_earnings_with_dual_tracking(p) ==
    /\ Free(p)
    /\ \E paystub_id \in DOMAIN contractor_earnings :
          req' = [req EXCEPT ![p] =
                    [Idle EXCEPT
                       !.op = "calculate_earnings_with_dual_tracking",
                       !.payment_id = paystub_id,
                       !.result =
                          <<dual_tracking_earnings(
                              contractor_earnings[paystub_id].contractor_total_earnings,
                              dual_actuals(paystub_account_splits,
                                           paystub_id).contractor_actual)>>,
                       !.pc = "done"]]
    /\ UNCHANGED <<upload_tables, contractor_tables, manager_tables>>

----------------------------------------------------------------------------
(* The manager ledger *)

ManagerSnapshot ==
    [earnings |-> manager_earnings, payments |-> manager_payments,
     allocations |-> manager_payment_allocations]

\* the row calculate_manager_earnings upserts for a manager assignment and a
\* paystub: total = hours x flat rate, nothing paid
NewManagerEarning(id, manager_id, pay_period_begin, total_earnings) ==
    [id |-> id, manager_id |-> manager_id,
     pay_period_begin |-> pay_period_begin,
     total_earnings |-> total_earnings,
     amount_paid |-> 0,
     amount_pending |-> total_earnings,
     payment_status |-> "unpaid",
     deleted |-> FALSE]

\* the backfill of a new manager assignment: a row for a paystub that has none
calculate_manager_earnings ==
    /\ Free(1)
    /\ Len(manager_earnings) < MaxEarnings
    /\ \E m \in Managers, d \in Dates, total \in Totals :
          manager_earnings' =
              Append(manager_earnings,
                     NewManagerEarning(Len(manager_earnings) + 1, m, d, total))
    /\ req' = [req EXCEPT ![1] = Idle]
    /\ UNCHANGED <<upload_tables, contractor_tables, manager_payments, manager_payment_allocations>>

\* a row of manager_payments that has not been deleted; a deleted row keeps its
\* place in the sequence so that an id is never given twice
LivePayment(payment_id) ==
    /\ payment_id \in DOMAIN manager_payments
    /\ ~ manager_payments[payment_id].deleted

\* a row of manager_earnings that is still in the table; a removed row keeps
\* its place in the sequence so that an id is never given twice
LiveManagerEarning(earning_id) ==
    /\ earning_id \in DOMAIN manager_earnings
    /\ ~ manager_earnings[earning_id].deleted

UnpaidManagerRows(manager_id) ==
    {e \in Rows(manager_earnings) : /\ ~ e.deleted
                                    /\ e.manager_id = manager_id
                                    /\ e.payment_status \in OutstandingStatuses}

\* a loop that gives the first outstanding row all that remains
RECURSIVE manager_fifo_uncapped(_, _)
manager_fifo_uncapped(remaining, unpaid) ==
    IF unpaid = <<>> \/ remaining <= 0 THEN <<>>
    ELSE LET earning == Head(unpaid)
             pending == earning.amount_pending
         IN  IF pending <= 0 THEN manager_fifo_uncapped(remaining, Tail(unpaid))
             ELSE <<[earning |-> earning, amount |-> remaining]>>

\* the loop of record_manager_payment over the rows it selected: what it
\* allocates to which of them
RECURSIVE manager_fifo(_, _)
manager_fifo(remaining, unpaid) ==
    IF unpaid = <<>> \/ remaining <= 0 THEN <<>>
    ELSE LET earning == Head(unpaid)
             pending == earning.amount_pending
             alloc_amount == Min(remaining, pending)
         IN  IF pending <= 0 THEN manager_fifo(remaining, Tail(unpaid))
             ELSE <<[earning |-> earning, amount |-> alloc_amount]>>
                  \o manager_fifo(remaining - alloc_amount, Tail(unpaid))

\* the update of the loop, computed from the row as it was selected
manager_earning_update(earning, alloc_amount) ==
    LET new_paid == earning.amount_paid + alloc_amount
        new_pending == earning.total_earnings - new_paid
    IN  [amount_paid |-> new_paid,
         amount_pending |-> new_pending,
         payment_status |-> payment_status_of(new_paid, new_pending)]

\* the update of delete_manager_payment, computed from the row it has just read
manager_earning_reversal(e, amount_allocated) ==
    LET new_paid == Max(0, e.amount_paid - amount_allocated)
        new_pending == e.total_earnings - new_paid
    IN  [amount_paid |-> new_paid,
         amount_pending |-> new_pending,
         payment_status |-> payment_status_of(new_paid, new_pending)]

\* POST /payments/manager: the request (the manager exists, amount > 0) and the
\* payment row
record_manager_payment(p) ==
    /\ Free(p)
    /\ Len(manager_payments) < MaxPayments
    /\ \E m \in Managers, a \in Amounts :
          LET payment_id == Len(manager_payments) + 1 IN
          /\ manager_payments' =
                Append(manager_payments,
                       [id |-> payment_id, manager_id |-> m, amount |-> a,
                        deleted |-> FALSE])
          /\ req' = [req EXCEPT ![p] =
                       [Idle EXCEPT !.op = "record_manager_payment",
                                    !.payee = m, !.amount = a,
                                    !.payment_id = payment_id, !.idx = 1,
                                    !.before = <<ManagerSnapshot>>,
                                    !.pc = "select_unpaid"]]
    /\ UNCHANGED <<upload_tables, contractor_tables, manager_earnings, manager_payment_allocations>>

\* the select of the manager's outstanding rows, oldest first; the loop works
\* on this result
record_manager_payment_select_unpaid(p) ==
    /\ req[p].pc = "select_unpaid"
    /\ \E unpaid \in OrderedAscending(UnpaidManagerRows(req[p].payee)) :
          LET allocations == manager_fifo(req[p].amount, unpaid) IN
          req' = [req EXCEPT ![p].unpaid = unpaid,
                             ![p].allocations = allocations,
                             ![p].pc = IF allocations = <<>> THEN "done"
                                       ELSE "insert_manager_allocation",
                             ![p].response = IF allocations = <<>> THEN "201"
                                             ELSE "none"]
    /\ UNCHANGED <<upload_tables, contractor_tables, manager_tables>>

\* the allocation row; its payment_id references manager_payments, so the
\* insert raises when the payment row is gone
record_manager_payment_insert_allocation(p) ==
    /\ req[p].pc = "insert_manager_allocation"
    /\ LET alloc == req[p].allocations[req[p].idx] IN
          IF LivePayment(req[p].payment_id)
          THEN /\ manager_payment_allocations' =
                     Append(manager_payment_allocations,
                            [payment_id |-> req[p].payment_id,
                             manager_earning_id |-> alloc.earning.id,
                             amount_allocated |-> alloc.amount])
               /\ req' = [req EXCEPT ![p].pc = "update_manager_earning"]
          ELSE /\ req' = [req EXCEPT ![p].pc = "failed", ![p].response = "500"]
               /\ UNCHANGED manager_payment_allocations
    /\ UNCHANGED <<upload_tables, contractor_tables, manager_earnings, manager_payments>>

\* the update of the earning, from the amounts of the selected row; it
\* matches no row when the row is gone
record_manager_payment_update_earning(p) ==
    /\ req[p].pc = "update_manager_earning"
    /\ LET alloc == req[p].allocations[req[p].idx]
           last == req[p].idx = Len(req[p].allocations)
       IN  /\ manager_earnings' =
                 [manager_earnings EXCEPT ![alloc.earning.id] =
                     IF @.deleted THEN @
                     ELSE WithUpdate(@, manager_earning_update(alloc.earning,
                                                               alloc.amount))]
           /\ req' = [req EXCEPT ![p].idx = @ + 1,
                                 ![p].pc = IF last THEN "done"
                                           ELSE "insert_manager_allocation",
                                 ![p].response = IF last THEN "201" ELSE "none"]
    /\ UNCHANGED <<upload_tables, contractor_tables, manager_payments, manager_payment_allocations>>

\* DELETE /payments/manager/{payment_id}: the request and the select of the
\* payment; when the worker has just recorded this payment, the ledger before
\* it is kept for comparison
delete_manager_payment(p) ==
    /\ Free(p)
    /\ \E payment_id \in 1..MaxPayments :
          req' = [req EXCEPT ![p] =
                    [Idle EXCEPT !.op = "delete_manager_payment",
                                 !.payment_id = payment_id,
                                 !.before =
                                    IF /\ req[p].op = "record_manager_payment"
                                       /\ req[p].pc = "done"
                                       /\ req[p].payment_id = payment_id
                                    THEN req[p].before ELSE <<>>,
                                 !.pc = IF LivePayment(payment_id)
                                        THEN "select_manager_allocations"
                                        ELSE "failed",
                                 !.response = IF LivePayment(payment_id)
                                              THEN "none" ELSE "404"]]
    /\ UNCHANGED <<upload_tables, contractor_tables, manager_tables>>

\* the select of the allocations to reverse
delete_manager_payment_select_allocations(p) ==
    /\ req[p].pc = "select_manager_allocations"
    /\ LET allocs == SelectSeq(manager_payment_allocations,
                               LAMBDA a : a.payment_id = req[p].payment_id)
       IN  req' = [req EXCEPT ![p].allocations = allocs,
                              ![p].idx = 1,
                              ![p].pc = IF allocs = <<>>
                                        THEN "delete_manager_payment_row"
                                        ELSE "read_manager_earning"]
    /\ UNCHANGED <<upload_tables, contractor_tables, manager_tables>>

\* per allocation: the select of the earning it targets; "if earning.data:"
\* guards the update, so an allocation whose earning is gone is passed over
\* and the loop goes on; result keeps the allocations passed over
delete_manager_payment_read_earning(p) ==
    /\ req[p].pc = "read_manager_earning"
    /\ LET alloc == req[p].allocations[req[p].idx]
           last == req[p].idx = Len(req[p].allocations)
       IN  IF LiveManagerEarning(alloc.manager_earning_id)
           THEN req' = [req EXCEPT ![p].earning =
                                     <<manager_earnings[alloc.manager_earning_id]>>,
                                   ![p].pc = "reverse_manager_earning"]
           ELSE req' = [req EXCEPT ![p].idx = @ + 1,
                                   ![p].result = Append(@, alloc),
                                   ![p].pc = IF last THEN "delete_manager_payment_row"
                                             ELSE "read_manager_earning"]
    /\ UNCHANGED <<upload_tables, contractor_tables, manager_tables>>

\* per allocation: the update that takes the allocation back
delete_manager_payment_update_earning(p) ==
    /\ req[p].pc = "reverse_manager_earning"
    /\ LET alloc == req[p].allocations[req[p].idx]
           e == req[p].earning[1]
           last == req[p].idx = Len(req[p].allocations)
       IN  /\ manager_earnings' =
                 [manager_earnings EXCEPT ![alloc.manager_earning_id] =
                     IF @.deleted THEN @
                     ELSE WithUpdate(@, manager_earning_reversal(
                                            e, alloc.amount_allocated))]
           /\ req' = [req EXCEPT ![p].idx = @ + 1,
                                 ![p].earning = <<>>,
                                 ![p].pc = IF last THEN "delete_manager_payment_row"
                                           ELSE "read_manager_earning"]
    /\ UNCHANGED <<upload_tables, contractor_tables, manager_payments, manager_payment_allocations>>

\* the delete of the payment row, which cascades to its allocation rows
delete_manager_payment_row(p) ==
    /\ req[p].pc = "delete_manager_payment_row"
    /\ manager_payments' =
          [manager_payments EXCEPT ![req[p].payment_id].deleted = TRUE]
    /\ manager_payment_allocations' =
          SelectSeq(manager_payment_allocations,
                    LAMBDA a : a.payment_id # req[p].payment_id)
    /\ req' = [req EXCEPT ![p].pc = "done", ![p].response = "200"]
    /\ UNCHANGED <<upload_tables, contractor_tables, manager_earnings>>

\* The parent paystub of a manager earnings record is deleted and the record
\* goes with it.  No handler of the backend deletes a paystub; the deletion is
\* a statement on the database.  Whether the allocation rows that target the
\* record go with it depends on the foreign key of manager_payment_allocations,
\* which the backend does not declare: both outcomes are modelled.
paystub_deleted ==
    /\ \E earning_id \in DOMAIN manager_earnings, cascade \in BOOLEAN :
          /\ ~ manager_earnings[earning_id].deleted
          /\ manager_earnings' =
                [manager_earnings EXCEPT ![earning_id].deleted = TRUE]
          /\ manager_payment_allocations' =
                IF cascade
                THEN SelectSeq(manager_payment_allocations,
                               LAMBDA a : a.manager_earning_id # earning_id)
                ELSE manager_payment_allocations
    /\ UNCHANGED <<upload_tables, contractor_tables, manager_payments, req>>

----------------------------------------------------------------------------
(* The Classifier: EarningsCalculator.identify_bonuses *)

\* str.lower() and "keyword in description" are computed on the sequence of
\* the characters of a description, as Python computes them.
UpperCase ==
    <<"A", "B", "C", "D", "E", "F", "G", "H", "I", "J", "K", "L", "M", "N", "O", "P", "Q", "R", "S", "T", "U", "V", "W", "X", "Y", "Z">>

LowerCase ==
    <<"a", "b", "c", "d", "e", "f", "g", "h", "i", "j", "k", "l", "m", "n", "o", "p", "q", "r", "s", "t", "u", "v", "w", "x", "y", "z">>

lower_char(c) ==
    IF \E i \in DOMAIN UpperCase : UpperCase[i] = c
    THEN LowerCase[CHOOSE i \in DOMAIN UpperCase : UpperCase[i] = c]
    ELSE c

\* the text with its case kept
text_as_written(text) == text

\* str.lower()
RECURSIVE lower(_)
lower(text) ==
    IF text = <<>> THEN <<>> ELSE <<lower_char(Head(text))>> \o lower(Tail(text))

\* keyword in text
Contains(text, keyword) ==
    \E i \in 1..(Len(text) - Len(keyword) + 1) :
       SubSeq(text, i, i + Len(keyword) - 1) = keyword

BONUS_KEYWORDS ==
    <<<<"b", "o", "n", "u", "s">>,
      <<"i", "n", "c", "e", "n", "t", "i", "v", "e">>,
      <<"c", "o", "m", "m", "i", "s", "s", "i", "o", "n">>,
      <<"r", "e", "t", "e", "n", "t", "i", "o", "n">>,
      <<"r", "e", "f", "e", "r", "r", "a", "l">>,
      <<"a", "w", "a", "r", "d">>,
      <<"s", "t", "i", "p", "e", "n", "d">>,
      <<"g", "i", "f", "t", " ", "c", "a", "r", "d">>,
      <<"g", "i", "f", "t">>>>

REGULAR_KEYWORDS ==
    <<<<"r", "e", "g", "u", "l", "a", "r">>,
      <<"o", "v", "e", "r", "t", "i", "m", "e">>,
      <<"o", "v", "e", "r", "t", "i", "m", "e", " ", "p", "r", "e", "m", "i", "u", "m">>,
      <<"e", "d", "u", "c", "a", "t", "i", "o", "n", " ", "d", "i", "f", "f", "e", "r", "e", "n", "t", "i", "a", "l">>,
      <<"s", "h", "i", "f", "t", " ", "d", "i", "f", "f", "e", "r", "e", "n", "t", "i", "a", "l">>,
      <<"h", "o", "l", "i", "d", "a", "y">>,
      <<"v", "a", "c", "a", "t", "i", "o", "n">>,
      <<"s", "i", "c", "k">>,
      <<"p", "t", "o">>,
      <<"p", "e", "r", "s", "o", "n", "a", "l", " ", "t", "i", "m", "e">>>>

SUPPLEMENTAL_HOUR_KEYWORDS ==
    <<<<"p", "r", "e", "m", "i", "u", "m">>,
      <<"d", "i", "f", "f", "e", "r", "e", "n", "t", "i", "a", "l">>,
      <<"g", "r", "o", "u", "p", " ", "t", "e", "r", "m", " ", "l", "i", "f", "e">>,
      <<"g", "t", "l">>,
      <<"g", "r", "o", "s", "s", " ", "u", "p">>>>

\* any(keyword in description for keyword in keywords)
any_keyword(description, keywords) ==
    \E k \in DOMAIN keywords : Contains(description, keywords[k])

\* the descriptions of the pay lines a parsed paystub may have
Descriptions ==
    {"Regular", "Overtime", "Overtime Premium", "Double Time", "Holiday Bonus", "Bonus", "Mileage"}

\* the characters of a description
characters(description) ==
    CASE description = "Regular" -> <<"R", "e", "g", "u", "l", "a", "r">>
      [] description = "Overtime" -> <<"O", "v", "e", "r", "t", "i", "m", "e">>
      [] description = "Overtime Premium" -> <<"O", "v", "e", "r", "t", "i", "m", "e", " ", "P", "r", "e", "m", "i", "u", "m">>
      [] description = "Double Time" -> <<"D", "o", "u", "b", "l", "e", " ", "T", "i", "m", "e">>
      [] description = "Holiday Bonus" -> <<"H", "o", "l", "i", "d", "a", "y", " ", "B", "o", "n", "u", "s">>
      [] description = "Bonus" -> <<"B", "o", "n", "u", "s">>
      [] description = "Mileage" -> <<"M", "i", "l", "e", "a", "g", "e">>

\* description.lower() and the keyword tests, computed once per description
description_lower == [d \in Descriptions |-> lower(characters(d))]

has_regular_keyword ==
    [d \in Descriptions |-> any_keyword(description_lower[d], REGULAR_KEYWORDS)]

has_bonus_keyword ==
    [d \in Descriptions |-> any_keyword(description_lower[d], BONUS_KEYWORDS)]

has_supplemental_keyword ==
    [d \in Descriptions |->
        any_keyword(description_lower[d], SUPPLEMENTAL_HOUR_KEYWORDS)]

\* a pay line of paystub_data['earnings']: hours, rate and amount in hours,
\* cents per hour and cents
PayLines ==
    [description : Descriptions, hours : Hours, rate : Rates, amount : LineAmounts]

EarningsLists == UNION {[1..n -> PayLines] : n \in 0..MaxLines}

\* a Classifier that checks the two keyword lists independently: a line with
\* a keyword of both lists goes to both outputs
RECURSIVE identify_bonuses_independent(_)
identify_bonuses_independent(earnings_list) ==
    IF earnings_list = <<>> THEN <<<<>>, <<>>>>
    ELSE LET earning == Head(earnings_list)
             rest == identify_bonuses_independent(Tail(earnings_list))
             is_bonus == has_bonus_keyword[earning.description]
             is_regular == has_regular_keyword[earning.description] \/ ~ is_bonus
         IN  <<IF is_regular THEN <<earning>> \o rest[1] ELSE rest[1],
               IF is_bonus THEN <<earning>> \o rest[2] ELSE rest[2]>>

\* a Classifier that looks for the incentive keywords first
RECURSIVE identify_bonuses_bonus_first(_)
identify_bonuses_bonus_first(earnings_list) ==
    IF earnings_list = <<>> THEN <<<<>>, <<>>>>
    ELSE LET earning == Head(earnings_list)
             rest == identify_bonuses_bonus_first(Tail(earnings_list))
         IN  IF has_bonus_keyword[earning.description]
             THEN <<rest[1], <<earning>> \o rest[2]>>
             ELSE <<<<earning>> \o rest[1], rest[2]>>

\* identify_bonuses: <<regular_earnings, bonuses>>
RECURSIVE identify_bonuses(_)
identify_bonuses(earnings_list) ==
    IF earnings_list = <<>> THEN <<<<>>, <<>>>>
    ELSE LET earning == Head(earnings_list)
             rest == identify_bonuses(Tail(earnings_list))
         IN  IF has_regular_keyword[earning.description]
             THEN <<<<earning>> \o rest[1], rest[2]>>
             ELSE IF has_bonus_keyword[earning.description]
             THEN <<rest[1], <<earning>> \o rest[2]>>
             ELSE <<<<earning>> \o rest[1], rest[2]>>

\* a call of identify_bonuses on the pay-line list the request holds
identify_bonuses_run(p) ==
    /\ req[p].pc = "identify_bonuses"
    /\ req' = [req EXCEPT ![p].result = identify_bonuses(req[p].earnings_list),
                          ![p].pc = "done"]
    /\ UNCHANGED <<upload_tables, contractor_tables, manager_tables>>

----------------------------------------------------------------------------
(* The Rate Engine: EarningsCalculator.calculate_earnings, validate_earnings *)

\* Amounts are cents, hours whole hours, hourly rates cents per hour,
\* percentages whole percents; a multiplier is kept as twice its value (3 is
\* 1.5x).  An Optional field is <<>> for None and <<v>> for a value.

\* (num / den).quantize(..., rounding=ROUND_HALF_UP), den > 0: a tie goes away
\* from zero
RoundHalfUp(num, den) ==
    IF num >= 0 THEN (2 * num + den) \div (2 * den)
    ELSE -((2 * (-num) + den) \div (2 * den))

\* a sum that leaves the supplemental lines out
RECURSIVE sum_amounts_without_supplemental(_)
sum_amounts_without_supplemental(lines) ==
    IF lines = <<>> THEN 0
    ELSE (IF has_supplemental_keyword[Head(lines).description] THEN 0
          ELSE Head(lines).amount)
         + sum_amounts_without_supplemental(Tail(lines))

\* sum(Decimal(str(b.get('amount', 0))) for b in lines)
RECURSIVE sum_amounts(_)
sum_amounts(lines) ==
    IF lines = <<>> THEN 0 ELSE Head(lines).amount + sum_amounts(Tail(lines))

is_supplemental(description) == has_supplemental_keyword[description]

\* the hours of the regular lines that are not supplemental
RECURSIVE total_hours_of(_)
total_hours_of(regular_earnings) ==
    IF regular_earnings = <<>> THEN 0
    ELSE (IF is_supplemental(Head(regular_earnings).description) THEN 0
          ELSE Head(regular_earnings).hours)
         + total_hours_of(Tail(regular_earnings))

Literal_regular == <<"r", "e", "g", "u", "l", "a", "r">>
Literal_overtime == <<"o", "v", "e", "r", "t", "i", "m", "e">>
Literal_overtime_premium == <<"o", "v", "e", "r", "t", "i", "m", "e", " ", "p", "r", "e", "m", "i", "u", "m">>
Literal_double_time == <<"d", "o", "u", "b", "l", "e", " ", "t", "i", "m", "e">>

\* 'regular' in desc, 'overtime' in desc, ..., computed once per description
has_literal ==
    [d \in Descriptions |->
        [regular |-> Contains(description_lower[d], Literal_regular),
         overtime |-> Contains(description_lower[d], Literal_overtime),
         overtime_premium |->
            Contains(description_lower[d], Literal_overtime_premium),
         double_time |-> Contains(description_lower[d], Literal_double_time)]]

\* _get_base_rate: the rate of the first 'regular' line that has one, or None
RECURSIVE get_base_rate(_)
get_base_rate(earnings_list) ==
    IF earnings_list = <<>> THEN <<>>
    ELSE LET e == Head(earnings_list) IN
         IF /\ has_literal[e.description].regular
            /\ e.rate > 0
         THEN <<e.rate>>
         ELSE get_base_rate(Tail(earnings_list))

\* _has_overtime_premium
has_overtime_premium(earnings_list) ==
    \E i \in DOMAIN earnings_list :
       has_literal[earnings_list[i].description].overtime_premium

\* a multiplier that does not skip the supplemental lines
get_earning_multiplier_without_skip(description, rate, base_rate, has_ot_premium) ==
    LET from_rates == base_rate # <<>> /\ base_rate[1] > 0 /\ rate > 0
    IN  IF has_literal[description].overtime
        THEN (IF has_ot_premium THEN <<3>>
              ELSE IF from_rates THEN <<RoundHalfUp(2 * rate, base_rate[1])>>
              ELSE <<3>>)
        ELSE IF has_literal[description].double_time THEN <<4>>
        ELSE IF from_rates THEN <<RoundHalfUp(2 * rate, base_rate[1])>>
        ELSE <<2>>

\* _get_earning_multiplier: twice the multiplier of a line, or None for a
\* supplemental line
get_earning_multiplier(description, rate, base_rate, has_ot_premium) ==
    LET from_rates == base_rate # <<>> /\ base_rate[1] > 0 /\ rate > 0
    IN  IF has_supplemental_keyword[description] THEN <<>>
        ELSE IF has_literal[description].overtime
        THEN (IF has_ot_premium THEN <<3>>
              ELSE IF from_rates THEN <<RoundHalfUp(2 * rate, base_rate[1])>>
              ELSE <<3>>)
        ELSE IF has_literal[description].double_time THEN <<4>>
        ELSE IF from_rates THEN <<RoundHalfUp(2 * rate, base_rate[1])>>
        ELSE <<2>>

\* the loop of the fixed mode over the regular lines: the sum of the line pays
RECURSIVE fixed_contractor_regular(_, _, _, _)
fixed_contractor_regular(regular_earnings, fixed_rate, base_rate, has_ot_premium) ==
    IF regular_earnings = <<>> THEN 0
    ELSE LET e == Head(regular_earnings)
             multiplier == get_earning_multiplier(e.description, e.rate, base_rate,
                                                  has_ot_premium)
             line_pay == RoundHalfUp(e.hours * fixed_rate * multiplier[1], 2)
         IN  (IF e.hours <= 0 \/ multiplier = <<>> THEN 0 ELSE line_pay)
             + fixed_contractor_regular(Tail(regular_earnings), fixed_rate,
                                        base_rate, has_ot_premium)

\* the dictionary calculate_earnings returns
earnings_result(client_gross, total_hours, contractor_regular, contractor_bonus) ==
    [error |-> "none",
     client_gross_pay |-> client_gross,
     client_total_hours |-> total_hours,
     contractor_regular_earnings |-> contractor_regular,
     contractor_bonus_share |-> contractor_bonus,
     contractor_total_earnings |-> contractor_regular + contractor_bonus,
     company_margin |-> client_gross - (contractor_regular + contractor_bonus),
     payment_status |-> "unpaid",
     amount_paid |-> 0,
     amount_pending |-> contractor_regular + contractor_bonus]

\* what a call that raised gives
Raised(error) == [error |-> error]

\* calculate_earnings: the dictionary, or the exception it raises.
\* Decimal(str(None)) raises InvalidOperation, float(None) raises TypeError.
calculate_earnings(paystub_data, assignment) ==
    LET client_gross == paystub_data.gross_pay
        earnings_list == paystub_data.earnings
        classified == identify_bonuses(earnings_list)
        regular_earnings == classified[1]
        bonuses == classified[2]
        bonus_total == sum_amounts(bonuses)
        regular_total == sum_amounts(regular_earnings)
        total_hours == total_hours_of(regular_earnings)
        rate_type == assignment.rate_type
        contractor_bonus ==
            RoundHalfUp(bonus_total * assignment.bonus_split_percentage, 100)
        rate_value ==
            IF /\ assignment.fixed_hourly_rate # <<>>
               /\ assignment.fixed_hourly_rate[1] # 0
            THEN assignment.fixed_hourly_rate
            ELSE assignment.percentage_rate
    IN  IF rate_type = "fixed" /\ assignment.fixed_hourly_rate = <<>>
        THEN Raised("InvalidOperation")
        ELSE IF rate_type = "percentage" /\ assignment.percentage_rate = <<>>
        THEN Raised("InvalidOperation")
        ELSE IF rate_type \notin {"fixed", "percentage"}
        THEN Raised("ValueError")
        ELSE IF rate_value = <<>>
        THEN Raised("TypeError")
        ELSE earnings_result(
                client_gross, total_hours,
                IF rate_type = "fixed"
                THEN fixed_contractor_regular(regular_earnings,
                                              assignment.fixed_hourly_rate[1],
                                              get_base_rate(earnings_list),
                                              has_overtime_premium(earnings_list))
                ELSE RoundHalfUp(regular_total * assignment.percentage_rate[1], 100),
                contractor_bonus)

\* a validation without the check of the sum
validate_earnings_without_sum(earnings) ==
    IF earnings.contractor_total_earnings <= 0 THEN "ValueError" ELSE "none"

\* a validation that takes a negative margin for a failure
validate_earnings_positive_margin(earnings) ==
    IF Abs(earnings.contractor_total_earnings + earnings.company_margin
           - earnings.client_gross_pay) > ReconciliationTolerance
    THEN "ValueError"
    ELSE IF earnings.contractor_total_earnings <= 0 THEN "ValueError"
    ELSE IF earnings.company_margin < 0 THEN "ValueError"
    ELSE "none"

\* validate_earnings: "none" when it returns True, else the exception; a
\* negative margin is logged only
validate_earnings(earnings) ==
    IF Abs(earnings.contractor_total_earnings + earnings.company_margin
           - earnings.client_gross_pay) > ReconciliationTolerance
    THEN "ValueError"
    ELSE IF earnings.contractor_total_earnings <= 0 THEN "ValueError"
    ELSE "none"

\* calculate_contractor_earnings: calculate, validate, return
calculate_contractor_earnings(paystub_data, assignment) ==
    LET earnings == calculate_earnings(paystub_data, assignment) IN
    IF earnings.error # "none" THEN earnings
    ELSE IF validate_earnings(earnings) # "none"
    THEN Raised(validate_earnings(earnings))
    ELSE earnings

\* the paystubs the parser may give, as far as the Rate Engine reads them
PaystubData == [gross_pay : Grosses, earnings : EarningsLists]

\* the rate contracts validate_rate_structure lets through
RateContracts ==
    [rate_type : {"fixed"}, fixed_hourly_rate : {<<r>> : r \in FixedRates},
     percentage_rate : {<<>>}, bonus_split_percentage : Percentages]
    \cup
    [rate_type : {"percentage"}, fixed_hourly_rate : {<<>>},
     percentage_rate : {<<q>> : q \in Percentages},
     bonus_split_percentage : Percentages]

\* the dictionaries validate_earnings may be given
EarningsDicts ==
    [client_gross_pay : Grosses, contractor_total_earnings : -1..MaxGross,
     company_margin : (-MaxGross)..MaxGross]

\* a call of calculate_contractor_earnings on the inputs the request holds
calculate_contractor_earnings_run(p) ==
    /\ req[p].pc = "calculate_contractor_earnings"
    /\ LET earnings == calculate_contractor_earnings(req[p].paystub_data[1],
                                                     req[p].assignment[1])
       IN  req' = [req EXCEPT ![p].result =
                                 IF earnings.error = "none" THEN <<earnings>> ELSE <<>>,
                              ![p].errors =
                                 IF earnings.error = "none" THEN <<>>
                                 ELSE <<earnings.error>>,
                              ![p].pc = "done"]
    /\ UNCHANGED <<upload_tables, contractor_tables, manager_tables>>

\* a call of validate_earnings on the dictionary the request holds
validate_earnings_run(p) ==
    /\ req[p].pc = "validate_earnings"
    /\ LET error == validate_earnings(req[p].earning[1]) IN
          req' = [req EXCEPT ![p].errors = IF error = "none" THEN <<>> ELSE <<error>>,
                             ![p].pc = "done"]
    /\ UNCHANGED <<upload_tables, contractor_tables, manager_tables>>

----------------------------------------------------------------------------
(* Contractor assignments: the rate contract and its validation *)

RateTypes == {"fixed", "percentage", "hourly"}
\* an Optional[float] of a request: absent (None) or a value the schema allows
OptionalRates == {<<>>} \cup {<<r>> : r \in 0..MaxContractRate}
OptionalPercentages == {<<>>} \cup {<<0>>, <<50>>}

\* "none", or the status of the HTTPException raised
validate_rate_structure(rate_type, fixed_hourly_rate, percentage_rate) ==
    IF rate_type \notin {"fixed", "percentage"} THEN "400"
    ELSE IF rate_type = "fixed"
    THEN IF fixed_hourly_rate = <<>> \/ fixed_hourly_rate[1] <= 0 THEN "400"
         ELSE IF percentage_rate # <<>> THEN "400"
         ELSE "none"
    ELSE IF percentage_rate = <<>> \/ percentage_rate[1] <= 0 THEN "400"
         ELSE IF fixed_hourly_rate # <<>> THEN "400"
         ELSE "none"

\* AssignmentCreate, with the default incentive split
AssignmentCreates ==
    [contractor_id : Contractors, rate_type : RateTypes,
     fixed_hourly_rate : OptionalRates, percentage_rate : OptionalPercentages,
     bonus_split_percentage : {50}]

\* AssignmentUpdate after model_dump(exclude_unset=True): of each field <<>>
\* when the request does not name it, else <<value>> (the value of a rate is
\* itself <<>> for an explicit null)
AssignmentUpdates ==
    [rate_type : {<<>>} \cup {<<t>> : t \in RateTypes},
     fixed_hourly_rate : {<<>>} \cup {<<r>> : r \in OptionalRates},
     percentage_rate : {<<>>} \cup {<<q>> : q \in OptionalPercentages},
     bonus_split_percentage : {<<>>, <<100>>}]

\* update_data.get(field, current[field])
get(update_data, field, current) ==
    IF update_data[field] = <<>> THEN current[field] ELSE update_data[field][1]

\* the row after .update(update_data)
updated(row, update_data) ==
    [row EXCEPT !.rate_type = get(update_data, "rate_type", row),
                !.fixed_hourly_rate = get(update_data, "fixed_hourly_rate", row),
                !.percentage_rate = get(update_data, "percentage_rate", row),
                !.bonus_split_percentage =
                    get(update_data, "bonus_split_percentage", row)]

NewAssignment(id, assignment) ==
    [id |-> id, contractor_id |-> assignment.contractor_id, is_active |-> TRUE,
     rate_type |-> assignment.rate_type,
     fixed_hourly_rate |-> assignment.fixed_hourly_rate,
     percentage_rate |-> assignment.percentage_rate,
     bonus_split_percentage |-> assignment.bonus_split_percentage]

\* POST /assignments (the contractor and the client company exist)
create_assignment(p) ==
    /\ Free(p)
    /\ Len(contractor_assignments) < MaxAssignments
    /\ \E assignment \in AssignmentCreates :
          LET raised == validate_rate_structure(assignment.rate_type,
                                                assignment.fixed_hourly_rate,
                                                assignment.percentage_rate)
              id == Len(contractor_assignments) + 1
              request == [Idle EXCEPT !.op = "create_assignment"]
          IN  IF raised # "none"
              THEN /\ req' = [req EXCEPT ![p] =
                                [request EXCEPT !.pc = "failed", !.response = raised]]
                   /\ UNCHANGED contractor_assignments
              ELSE /\ contractor_assignments' =
                         Append(contractor_assignments, NewAssignment(id, assignment))
                   /\ req' = [req EXCEPT ![p] =
                                [request EXCEPT !.pc = "done", !.assignment_id = id,
                                                !.response = "201"]]
    /\ UNCHANGED <<contractor_tables, paystub_account_splits, paystubs,
                   manager_assignments, manager_tables>>

\* PUT /assignments/{id}, up to the validation of the merged rate structure
update_assignment_validate(p) ==
    /\ Free(p)
    /\ \E assignment_id \in 1..MaxAssignments, update_data \in AssignmentUpdates :
          LET request == [Idle EXCEPT !.op = "update_assignment",
                                      !.assignment_id = assignment_id,
                                      !.update_data = <<update_data>>]
              no_fields == \A field \in DOMAIN update_data : update_data[field] = <<>>
              rate_fields ==
                  \E field \in {"rate_type", "fixed_hourly_rate", "percentage_rate"} :
                     update_data[field] # <<>>
              current == contractor_assignments[assignment_id]
              raised == validate_rate_structure(
                            get(update_data, "rate_type", current),
                            get(update_data, "fixed_hourly_rate", current),
                            get(update_data, "percentage_rate", current))
              failed(status) ==
                  [Idle EXCEPT !.op = "update_assignment", !.pc = "failed",
                               !.response = status]
          IN  req' = [req EXCEPT ![p] =
                        IF no_fields THEN failed("400")
                        ELSE IF ~ rate_fields
                        THEN [request EXCEPT !.pc = "update_assignment"]
                        ELSE IF assignment_id \notin DOMAIN contractor_assignments
                        THEN failed("404")
                        ELSE IF raised # "none" THEN failed(raised)
                        ELSE [request EXCEPT !.pc = "update_assignment"]]
    /\ UNCHANGED <<contractor_tables, paystub_account_splits, upload_tables,
                   manager_tables>>

\* PUT /assignments/{id}: the update of the row with the fields of the request
update_assignment_write(p) ==
    /\ req[p].pc = "update_assignment"
    /\ IF req[p].assignment_id \in DOMAIN contractor_assignments
       THEN /\ contractor_assignments' =
                  [contractor_assignments EXCEPT ![req[p].assignment_id] =
                      updated(@, req[p].update_data[1])]
            /\ req' = [req EXCEPT ![p] =
                         [Idle EXCEPT !.op = "update_assignment", !.pc = "done",
                                      !.assignment_id = req[p].assignment_id,
                                      !.response = "200"]]
       ELSE /\ req' = [req EXCEPT ![p] =
                         [Idle EXCEPT !.op = "update_assignment", !.pc = "failed",
                                      !.response = "404"]]
            /\ UNCHANGED contractor_assignments
    /\ UNCHANGED <<contractor_tables, paystub_account_splits, paystubs,
                   manager_assignments, manager_tables>>

update_assignment(p) ==
    update_assignment_validate(p) \/ update_assignment_write(p)

----------------------------------------------------------------------------
(* manager_earnings_service: earnings of the managers of a paystub's staff *)

\* flat_hourly_rate of a manager assignment, in half cents per hour
FlatRates == 1..MaxFlatRate

\* the manager assignments there can be: the one manager on the paystub's
\* contractor assignment (1) or on another (2)
ManagerAssignments ==
    [id : {1}, manager_id : Managers, contractor_assignment_id : {1, 2},
     flat_hourly_rate : FlatRates, is_active : BOOLEAN]

\* total non-supplemental hours of the paystub's regular lines
get_staff_total_hours(paystub_data) ==
    total_hours_of(identify_bonuses(paystub_data.earnings)[1])

\* earnings_data of one manager assignment; the hours and the total are not
\* multiplied by anything but the flat rate
manager_earnings_data(ma, paystub, staff_total_hours) ==
    LET total == RoundHalfUp(staff_total_hours * ma.flat_hourly_rate, 2) IN
    [id |-> 0, deleted |-> FALSE,
     manager_id |-> ma.manager_id,
     manager_assignment_id |-> ma.id,
     paystub_id |-> paystub.id,
     contractor_assignment_id |-> paystub.contractor_assignment_id,
     pay_period_begin |-> paystub.pay_period_begin,
     staff_total_hours |-> staff_total_hours,
     flat_hourly_rate |-> ma.flat_hourly_rate,
     total_earnings |-> total,
     amount_paid |-> 0,
     amount_pending |-> total,
     payment_status |-> "unpaid"]

\* the rows of the table with the key (manager_assignment_id, paystub_id)
conflicts(table, earnings_data) ==
    {i \in DOMAIN table :
        /\ ~ table[i].deleted
        /\ table[i].manager_assignment_id = earnings_data.manager_assignment_id
        /\ table[i].paystub_id = earnings_data.paystub_id}

\* an insert that does not look for the key
insert_always(table, earnings_data) ==
    Append(table, [earnings_data EXCEPT !.id = Len(table) + 1])

\* upsert(earnings_data, on_conflict="manager_assignment_id,paystub_id"): the
\* row with the key takes the values given and keeps its id
upsert(table, earnings_data) ==
    IF conflicts(table, earnings_data) = {}
    THEN Append(table, [earnings_data EXCEPT !.id = Len(table) + 1])
    ELSE [i \in DOMAIN table |->
             IF i \in conflicts(table, earnings_data)
             THEN [earnings_data EXCEPT !.id = i]
             ELSE table[i]]

\* the loop over the active manager assignments
RECURSIVE upsert_each(_, _, _, _)
upsert_each(table, ma_result, paystub, staff_total_hours) ==
    IF ma_result = <<>> THEN table
    ELSE upsert_each(upsert(table,
                            manager_earnings_data(Head(ma_result), paystub,
                                                  staff_total_hours)),
                     Tail(ma_result), paystub, staff_total_hours)

active_manager_assignments(contractor_assignment_id) ==
    LET active(ma) == /\ ma.contractor_assignment_id = contractor_assignment_id
                      /\ ma.is_active
    IN  SelectSeq(manager_assignments, active)

\* the table after calculate_manager_earnings(paystub_id)
manager_earnings_after(paystub_id) ==
    IF paystub_id \notin DOMAIN paystubs THEN manager_earnings
    ELSE LET paystub == paystubs[paystub_id]
             ma_result ==
                 active_manager_assignments(paystub.contractor_assignment_id)
             staff_total_hours == get_staff_total_hours(paystub.paystub_data)
         IN  IF paystub.contractor_assignment_id = 0 THEN manager_earnings
             ELSE IF ma_result = <<>> THEN manager_earnings
             ELSE IF staff_total_hours <= 0 THEN manager_earnings
             ELSE upsert_each(manager_earnings, ma_result, paystub,
                              staff_total_hours)

\* calculate_manager_earnings(paystub_id), for a paystub or an id without one;
\* the request keeps the table as it was before
calculate_manager_earnings_upsert(p) ==
    /\ Free(p)
    /\ \E paystub_id \in 1..(MaxPaystubs + 1) :
          /\ manager_earnings' = manager_earnings_after(paystub_id)
          /\ req' = [req EXCEPT ![p] =
                       [Idle EXCEPT !.op = "calculate_manager_earnings",
                                    !.payment_id = paystub_id,
                                    !.before = <<manager_earnings>>,
                                    !.pc = "done"]]
    /\ UNCHANGED <<upload_tables, contractor_tables, paystub_account_splits,
                   manager_payments, manager_payment_allocations>>

\* paystubs whose lines differ in description and hours
HoursPaystubs ==
    {paystub_data \in PaystubData :
        /\ paystub_data.gross_pay = 0
        /\ \A i \in DOMAIN paystub_data.earnings :
              /\ paystub_data.earnings[i].rate = 0
              /\ paystub_data.earnings[i].amount = 1}

----------------------------------------------------------------------------
(* POST /paystubs/upload, for a PDF with one paystub *)

\* the row save_paystub inserts
NewPaystub(id, file_hash, contractor_assignment_id, pay_period_begin, paystub_data) ==
    [id |-> id, file_hash |-> file_hash, employee_id |-> <<"e1">>,
     contractor_assignment_id |-> contractor_assignment_id,
     pay_period_begin |-> pay_period_begin,
     gross_pay |-> paystub_data.gross_pay,
     paystub_data |-> paystub_data]

\* the row save_earnings inserts from a result of the Rate Engine
EarningsRecord(id, paystub_id, assignment, pay_period_begin, earnings) ==
    [id |-> id, paystub_id |-> paystub_id,
     contractor_assignment_id |-> assignment.id,
     contractor_id |-> assignment.contractor_id,
     pay_period_begin |-> pay_period_begin,
     client_gross_pay |-> earnings.client_gross_pay,
     client_total_hours |-> earnings.client_total_hours,
     contractor_regular_earnings |-> earnings.contractor_regular_earnings,
     contractor_bonus_share |-> earnings.contractor_bonus_share,
     contractor_total_earnings |-> earnings.contractor_total_earnings,
     company_margin |-> earnings.company_margin,
     payment_status |-> earnings.payment_status,
     amount_paid |-> earnings.amount_paid,
     amount_pending |-> earnings.amount_pending,
     expected_earnings |-> 0, actual_payments |-> 0,
     payment_variance |-> 0, variance_status |-> "none"]

\* check_duplicate(file_hash): the stored paystub of the file, or None; when
\* the select raises, the function logs the error and returns None
check_duplicate(file_hash, select_raises) ==
    IF select_raises THEN <<>>
    ELSE IF \E i \in DOMAIN paystubs : paystubs[i].file_hash = file_hash
    THEN <<paystubs[CHOOSE i \in DOMAIN paystubs : paystubs[i].file_hash = file_hash]>>
    ELSE <<>>

\* The upload of a file (for a known client company, with a .pdf name) whose
\* parse gives one paystub, with the assignment named by the caller (0: none,
\* and none is matched).  A file already uploaded is refused with 409 before
\* it is parsed; a paystub of an employee, period and gross pay already stored
\* is skipped; otherwise the paystub is saved and, when it has an assignment,
\* the earnings are calculated and saved, and a failure of that is put in the
\* response ("earnings_error", "errors").  The parse of a file depends on its
\* content alone: a file with the hash of a stored paystub has that paystub's
\* data.  The request keeps the tables as they were.
upload_file(p, files, parsed, employees, limit, select_outcomes) ==
    /\ Free(p)
    /\ Len(paystubs) < limit
    /\ \E file_hash \in files, paystub_data \in parsed,
          pay_period_begin \in Dates, employee_id \in employees,
          contractor_assignment_id \in {0} \cup DOMAIN contractor_assignments,
          select_raises \in select_outcomes :
          LET paystub_id == Len(paystubs) + 1
              request == [Idle EXCEPT !.op = "upload_paystub",
                                      !.file_hash = file_hash,
                                      !.before = <<[paystubs |-> paystubs,
                                                    earnings |-> contractor_earnings]>>,
                                      !.pc = "done"]
              existing == check_duplicate(file_hash, select_raises)
              is_duplicate ==
                  /\ employee_id # <<>>
                  /\ \E i \in DOMAIN paystubs :
                        /\ paystubs[i].employee_id = employee_id
                        /\ paystubs[i].pay_period_begin = pay_period_begin
                        /\ paystubs[i].gross_pay = paystub_data.gross_pay
              assignment ==
                  IF contractor_assignment_id = 0 THEN <<>>
                  ELSE <<contractor_assignments[contractor_assignment_id]>>
              earnings ==
                  calculate_contractor_earnings(paystub_data, assignment[1])
              saved == assignment # <<>> /\ earnings.error = "none"
              record == EarningsRecord(Len(contractor_earnings) + 1, paystub_id,
                                       assignment[1], pay_period_begin, earnings)
          IN  /\ \A i \in DOMAIN paystubs :
                    paystubs[i].file_hash = file_hash
                    => /\ paystubs[i].paystub_data = paystub_data
                       /\ paystubs[i].pay_period_begin = pay_period_begin
                       /\ paystubs[i].employee_id = employee_id
              /\ IF existing # <<>>
                 THEN /\ req' = [req EXCEPT ![p] =
                                   [request EXCEPT !.pc = "failed", !.response = "409"]]
                      /\ UNCHANGED <<paystubs, contractor_earnings>>
                 ELSE IF is_duplicate
                 THEN /\ req' = [req EXCEPT ![p] =
                                   [request EXCEPT !.paystub_data = <<paystub_data>>,
                                                   !.errors = <<"Duplicate">>,
                                                   !.response = "201"]]
                      /\ UNCHANGED <<paystubs, contractor_earnings>>
                 ELSE /\ paystubs' =
                            Append(paystubs,
                                   [NewPaystub(paystub_id, file_hash,
                                               contractor_assignment_id,
                                               pay_period_begin, paystub_data)
                                       EXCEPT !.employee_id = employee_id])
                      /\ contractor_earnings' =
                            IF saved THEN Append(contractor_earnings, record)
                            ELSE contractor_earnings
                      /\ req' = [req EXCEPT ![p] =
                                   [request EXCEPT
                                       !.payment_id = paystub_id,
                                       !.paystub_data = <<paystub_data>>,
                                       !.assignment = assignment,
                                       !.result = IF saved THEN <<record>> ELSE <<>>,
                                       !.errors =
                                          IF assignment # <<>> /\ ~ saved
                                          THEN <<earnings.error>> ELSE <<>>,
                                       !.response = "201"]]
    /\ UNCHANGED <<contractor_payments, payment_allocations, paystub_account_splits,
                   contractor_assignments, manager_assignments, manager_tables>>

\* uploads of the files of one employee while every remote call answers
upload_of(p, parsed) ==
    upload_file(p, FileHashes, parsed, {<<"e1">>}, MaxPaystubs, {FALSE})

upload_paystub(p) == upload_of(p, PaystubData)

\* paystubs of one regular line: one hour at rate 1, paid 2
RegularHourPaystubs ==
    [gross_pay : {MaxGross},
     earnings : {<<[description |-> "Regular", hours |-> 1, rate |-> 1, amount |-> 2]>>}]

upload_regular_hour(p) == upload_of(p, RegularHourPaystubs)

\* the files there are to upload, and the employee id their parse may give
UploadedFiles == 1..MaxUploads
EmployeeIds == {<<>>, <<"e1">>}

\* uploads, repeated ones included, while every remote call answers
upload_again(p) ==
    upload_file(p, UploadedFiles, RegularHourPaystubs, EmployeeIds, MaxUploads,
                {FALSE})

\* the same when the select of check_duplicate may raise
upload_again_unchecked(p) ==
    upload_file(p, UploadedFiles, RegularHourPaystubs, EmployeeIds, MaxUploads,
                BOOLEAN)

----------------------------------------------------------------------------
(* Remote calls that fail during a Reconciler run, a flat-rate run and the
   insert of an Allocation row *)

\* the insert into payment_allocations gives no row back (alloc_result.data
\* is empty) and stores none: record_payment skips the append to its result
\* list and goes on to update_earning_payment_status
record_payment_allocation_not_stored(p) ==
    /\ req[p].op = "record_payment"
    /\ req[p].pc = "insert_allocation"
    /\ req' = [req EXCEPT ![p].errors = <<"no row">>, ![p].pc = "read_earning"]
    /\ UNCHANGED <<upload_tables, contractor_tables, manager_tables>>

\* the update of sync_earnings_payment_status raises: the except clause logs
\* the exception and the function returns None as after a run that went well
sync_earnings_payment_status_fails(p) ==
    /\ req[p].op = "sync_earnings_payment_status"
    /\ req[p].pc = "sync_update"
    /\ req' = [req EXCEPT ![p] =
                 [Idle EXCEPT !.op = "sync_earnings_payment_status",
                              !.payment_id = req[p].payment_id,
                              !.errors = <<"Exception">>, !.pc = "done"]]
    /\ UNCHANGED <<upload_tables, contractor_tables, manager_tables>>

\* a select or the upsert of calculate_manager_earnings raises: the except
\* clause logs the exception and the function returns [] as for a paystub
\* without a manager assignment; there is at most one assignment to upsert
\* for, so nothing was written before
calculate_manager_earnings_fails(p) ==
    /\ Free(p)
    /\ \E paystub_id \in 1..(MaxPaystubs + 1) :
          req' = [req EXCEPT ![p] =
                    [Idle EXCEPT !.op = "calculate_manager_earnings",
                                 !.payment_id = paystub_id,
                                 !.before = <<manager_earnings>>,
                                 !.errors = <<"Exception">>,
                                 !.pc = "done"]]
    /\ UNCHANGED <<upload_tables, contractor_tables, manager_tables>>

----------------------------------------------------------------------------
(* The Allocator on the contractor ledger, one request at a time *)

Recording(p) ==
    \/ record_payment(p)
    \/ record_payment_allocate(p)
    \/ record_payment_save_allocation(p)
    \/ update_earning_payment_status_read(p)
    \/ update_earning_payment_status_write(p)

Deleting(p) ==
    \/ delete_payment_route(p)
    \/ delete_payment(p)

Next ==
    \/ upload_paystub_with_earnings
    \/ Recording(1)
    \/ Deleting(1)

Spec == Init /\ [][Next]_vars

\* the same, with caller-supplied allocation lists
NextManual ==
    \/ upload_paystub_with_earnings
    \/ record_payment_manual(1)
    \/ Recording(1)

SpecManual == Init /\ [][NextManual]_vars

\* uploads, account assignment and the Reconciler
NextReconcile ==
    \/ upload_paystub_with_earnings
    \/ assign_accounts
    \/ sync_earnings_payment_status_read(1)
    \/ sync_earnings_payment_status_write(1)

SpecReconcile == Init /\ [][NextReconcile]_vars

\* the same with the Allocator
NextReconcileAlloc ==
    \/ NextReconcile
    \/ Recording(1)

SpecReconcileAlloc == Init /\ [][NextReconcileAlloc]_vars

\* uploads, account assignment and dual tracking
NextDual ==
    \/ upload_paystub_with_earnings
    \/ assign_accounts
    \/ calculate_earnings_with_dual_tracking(1)

SpecDual == Init /\ [][NextDual]_vars

\* uploads, account assignment, the Reconciler and dual tracking
NextCompare ==
    \/ NextReconcile
    \/ calculate_earnings_with_dual_tracking(1)

SpecCompare == Init /\ [][NextCompare]_vars

\* the Allocator when a remote call may fail
NextFail ==
    \/ upload_paystub_with_earnings
    \/ Recording(1)
    \/ remote_call_fails(1)

SpecFail == Init /\ [][NextFail]_vars

\* two workers record payments at the same time
NextConc ==
    \/ upload_paystub_with_earnings
    \/ Recording(1)
    \/ Recording(2)

SpecConc == Init /\ [][NextConc]_vars

ManagerRecording(p) ==
    \/ record_manager_payment(p)
    \/ record_manager_payment_select_unpaid(p)
    \/ record_manager_payment_insert_allocation(p)
    \/ record_manager_payment_update_earning(p)

ManagerDeleting(p) ==
    \/ delete_manager_payment(p)
    \/ delete_manager_payment_select_allocations(p)
    \/ delete_manager_payment_read_earning(p)
    \/ delete_manager_payment_update_earning(p)
    \/ delete_manager_payment_row(p)

\* the manager ledger, one request at a time
NextManagerSeq ==
    \/ calculate_manager_earnings
    \/ ManagerRecording(1)
    \/ ManagerDeleting(1)

SpecManagerSeq == Init /\ [][NextManagerSeq]_vars

\* the manager ledger: one worker records payments while another deletes them
NextManager ==
    \/ calculate_manager_earnings
    \/ ManagerRecording(1)
    \/ ManagerDeleting(2)

SpecManager == Init /\ [][NextManager]_vars

\* the manager ledger when paystubs are deleted under it
NextManagerGone ==
    \/ calculate_manager_earnings
    \/ ManagerRecording(1)
    \/ ManagerDeleting(1)
    \/ paystub_deleted

SpecManagerGone == Init /\ [][NextManagerGone]_vars

\* the state before any request, with empty tables
EmptyTables ==
    /\ contractor_earnings = <<>>
    /\ contractor_payments = <<>>
    /\ payment_allocations = <<>>
    /\ paystub_account_splits = <<>>
    /\ manager_earnings = <<>>
    /\ manager_payments = <<>>
    /\ manager_payment_allocations = <<>>
    /\ paystubs = <<>>
    /\ contractor_assignments = <<>>
    /\ manager_assignments = <<>>

\* the Classifier on every pay-line list of the bounds
InitClassify ==
    /\ EmptyTables
    /\ \E earnings_list \in EarningsLists :
          req = [p \in Procs |->
                   IF p = 1
                   THEN [Idle EXCEPT !.op = "identify_bonuses",
                                     !.earnings_list = earnings_list,
                                     !.pc = "identify_bonuses"]
                   ELSE Idle]

NextClassify ==
    identify_bonuses_run(1)

SpecClassify == InitClassify /\ [][NextClassify]_vars

\* the Rate Engine on every paystub and rate contract of the bounds, and its
\* validation on every dictionary of the bounds
InitRate ==
    /\ EmptyTables
    /\ \/ \E paystub_data \in PaystubData, assignment \in RateContracts :
             req = [p \in Procs |->
                      IF p = 1
                      THEN [Idle EXCEPT !.op = "calculate_contractor_earnings",
                                        !.paystub_data = <<paystub_data>>,
                                        !.assignment = <<assignment>>,
                                        !.pc = "calculate_contractor_earnings"]
                      ELSE Idle]
       \/ \E earnings \in EarningsDicts :
             req = [p \in Procs |->
                      IF p = 1
                      THEN [Idle EXCEPT !.op = "validate_earnings",
                                        !.earning = <<earnings>>,
                                        !.pc = "validate_earnings"]
                      ELSE Idle]

NextRate ==
    \/ calculate_contractor_earnings_run(1)
    \/ validate_earnings_run(1)

SpecRate == InitRate /\ [][NextRate]_vars

\* uploads for a contractor who has one assignment, with any rate contract
\* that create_assignment accepts
InitUpload ==
    /\ contractor_earnings = <<>>
    /\ contractor_payments = <<>>
    /\ payment_allocations = <<>>
    /\ paystub_account_splits = <<>>
    /\ manager_earnings = <<>>
    /\ manager_payments = <<>>
    /\ manager_payment_allocations = <<>>
    /\ paystubs = <<>>
    /\ \E contract \in RateContracts :
          contractor_assignments =
             <<NewAssignment(1, [contractor_id |-> "c1",
                                 rate_type |-> contract.rate_type,
                                 fixed_hourly_rate |-> contract.fixed_hourly_rate,
                                 percentage_rate |-> contract.percentage_rate,
                                 bonus_split_percentage |->
                                     contract.bonus_split_percentage])>>
    /\ manager_assignments = <<>>
    /\ req = [p \in Procs |-> Idle]

NextUpload ==
    upload_paystub(1)

SpecUpload == InitUpload /\ [][NextUpload]_vars

\* one stored paystub, of contractor assignment 1 or of none, and at most one
\* manager assignment
InitManagerCalc ==
    /\ contractor_earnings = <<>>
    /\ contractor_payments = <<>>
    /\ payment_allocations = <<>>
    /\ paystub_account_splits = <<>>
    /\ manager_earnings = <<>>
    /\ manager_payments = <<>>
    /\ manager_payment_allocations = <<>>
    /\ \E paystub_data \in HoursPaystubs, pay_period_begin \in Dates,
          contractor_assignment_id \in {0, 1} :
          paystubs = <<NewPaystub(1, 1, contractor_assignment_id,
                                  pay_period_begin, paystub_data)>>
    /\ contractor_assignments =
          <<NewAssignment(1, [contractor_id |-> "c1", rate_type |-> "fixed",
                              fixed_hourly_rate |-> <<1>>,
                              percentage_rate |-> <<>>,
                              bonus_split_percentage |-> 50])>>
    /\ manager_assignments \in {<<>>} \cup {<<ma>> : ma \in ManagerAssignments}
    /\ req = [p \in Procs |-> Idle]

\* manager earnings calculated, again and again, and payments recorded
NextManagerCalc ==
    \/ calculate_manager_earnings_upsert(1)
    \/ ManagerRecording(1)

SpecManagerCalc == InitManagerCalc /\ [][NextManagerCalc]_vars

\* a contractor with one fixed-rate assignment and nothing uploaded
InitDuplicate ==
    /\ contractor_earnings = <<>>
    /\ contractor_payments = <<>>
    /\ payment_allocations = <<>>
    /\ paystub_account_splits = <<>>
    /\ manager_earnings = <<>>
    /\ manager_payments = <<>>
    /\ manager_payment_allocations = <<>>
    /\ paystubs = <<>>
    /\ contractor_assignments =
          <<NewAssignment(1, [contractor_id |-> "c1", rate_type |-> "fixed",
                              fixed_hourly_rate |-> <<1>>,
                              percentage_rate |-> <<>>,
                              bonus_split_percentage |-> 50])>>
    /\ manager_assignments = <<>>
    /\ req = [p \in Procs |-> Idle]

\* files uploaded and uploaded again, one request at a time
NextDuplicate ==
    upload_again(1)

SpecDuplicate == InitDuplicate /\ [][NextDuplicate]_vars

\* the same when the duplicate check may fail
NextDuplicateUnchecked ==
    upload_again_unchecked(1)

SpecDuplicateUnchecked == InitDuplicate /\ [][NextDuplicateUnchecked]_vars

\* one stored paystub of contractor assignment 1 with one hour of work, its
\* Period Earnings Record and one active manager assignment for it
InitSurface ==
    /\ contractor_earnings = <<NewEarning(1, "c1", 1, MaxTotal)>>
    /\ contractor_payments = <<>>
    /\ payment_allocations = <<>>
    /\ paystub_account_splits = <<>>
    /\ manager_earnings = <<>>
    /\ manager_payments = <<>>
    /\ manager_payment_allocations = <<>>
    /\ paystubs =
          <<NewPaystub(1, 1, 1, 1,
                       [gross_pay |-> 0,
                        earnings |-> <<[description |-> "Regular", hours |-> 1,
                                        rate |-> 0, amount |-> 1]>>])>>
    /\ contractor_assignments =
          <<NewAssignment(1, [contractor_id |-> "c1", rate_type |-> "fixed",
                              fixed_hourly_rate |-> <<1>>,
                              percentage_rate |-> <<>>,
                              bonus_split_percentage |-> 50])>>
    /\ manager_assignments =
          <<[id |-> 1, manager_id |-> "m1", contractor_assignment_id |-> 1,
             flat_hourly_rate |-> 2, is_active |-> TRUE]>>
    /\ req = [p \in Procs |-> Idle]

\* recordings, Reconciler runs and flat-rate runs one at a time, with remote
\* calls that fail
NextSurface ==
    \/ Recording(1)
    \/ remote_call_fails(1)
    \/ record_payment_allocation_not_stored(1)
    \/ sync_earnings_payment_status_read(1)
    \/ sync_earnings_payment_status_write(1)
    \/ sync_earnings_payment_status_fails(1)
    \/ calculate_manager_earnings_upsert(1)
    \/ calculate_manager_earnings_fails(1)

SpecSurface == InitSurface /\ [][NextSurface]_vars

\* both ledgers, one request at a time: recordings, deletions of manager
\* payments, Reconciler runs, flat-rate runs and an Allocation insert that
\* stores nothing
NextPaid ==
    \/ Recording(1)
    \/ record_payment_allocation_not_stored(1)
    \/ sync_earnings_payment_status_read(1)
    \/ sync_earnings_payment_status_write(1)
    \/ calculate_manager_earnings_upsert(1)
    \/ ManagerRecording(1)
    \/ ManagerDeleting(1)

SpecPaid == InitSurface /\ [][NextPaid]_vars

\* the two ledgers with the same records: the records of contractor c1 and
\* those of manager m1 have the same periods and totals, and nothing is paid
InitEquivalent ==
    /\ \E n \in 0..MaxEarnings :
          \E dates \in [1..n -> Dates], totals \in [1..n -> Totals] :
             /\ contractor_earnings =
                   [i \in 1..n |-> NewEarning(i, "c1", dates[i], totals[i])]
             /\ manager_earnings =
                   [i \in 1..n |-> NewManagerEarning(i, "m1", dates[i], totals[i])]
    /\ contractor_payments = <<>>
    /\ payment_allocations = <<>>
    /\ paystub_account_splits = <<>>
    /\ manager_payments = <<>>
    /\ manager_payment_allocations = <<>>
    /\ paystubs = <<>>
    /\ contractor_assignments = <<>>
    /\ manager_assignments = <<>>
    /\ req = [p \in Procs |-> Idle]

\* worker 1 records contractor payments by FIFO, worker 2 manager payments;
\* the two work on different tables
NextEquivalent ==
    \/ Recording(1)
    \/ ManagerRecording(2)

SpecEquivalent == InitEquivalent /\ [][NextEquivalent]_vars

\* assignments created and updated by two admins, and paystubs uploaded
NextAssign ==
    \/ \E p \in Procs : create_assignment(p) \/ update_assignment(p)
    \/ upload_regular_hour(1)

SpecAssign == Init /\ [][NextAssign]_vars

\* the same, one request at a time
NextAssignSeq ==
    \/ create_assignment(1)
    \/ update_assignment(1)
    \/ upload_regular_hour(1)

SpecAssignSeq == Init /\ [][NextAssignSeq]_vars

----------------------------------------------------------------------------
(* Properties *)

\* the Allocation rows of a payment, and those that target a record
AllocationsOf(allocations, payment_id) ==
    SelectSeq(allocations, LAMBDA a : a.payment_id = payment_id)

AllocationsTo(allocations, earning_id) ==
    SelectSeq(allocations, LAMBDA a : a.earning_id = earning_id)

\* the status the spec derives from a record's amounts
DerivedStatus(total, amount_paid) ==
    IF total - amount_paid <= 0 THEN "paid"
    ELSE IF amount_paid > 0 THEN "partially_paid"
    ELSE "unpaid"

\* a FIFO recording by worker p whose allocation list has been computed
FifoComputed(p) ==
    /\ req[p].op = "record_payment"
    /\ req[p].manual = <<>>
    /\ req[p].pc \in {"insert_allocation", "read_earning", "update_earning", "done"}

\* a FIFO recording by worker p that has returned 201
FifoDone(p) ==
    /\ req[p].op = "record_payment"
    /\ req[p].manual = <<>>
    /\ req[p].pc = "done"

\* the rows of the ledger L that were outstanding for the payee
OutstandingOf(L, payee) ==
    {i \in DOMAIN L : /\ L[i].contractor_id = payee
                      /\ L[i].payment_status \in OutstandingStatuses}

\* what a computed allocation list gives to record i, and what is left of the
\* payment before its k-th entry
RECURSIVE GivenTo(_, _)
GivenTo(allocs, i) ==
    IF allocs = <<>> THEN 0
    ELSE (IF Head(allocs).earning_id = i THEN Head(allocs).amount ELSE 0)
         + GivenTo(Tail(allocs), i)

RemainingBefore(amount, allocs, k) == amount - SumAmount(SubSeq(allocs, 1, k - 1))

RECURSIVE SumPending(_, _)
SumPending(L, S) ==
    IF S = {} THEN 0
    ELSE LET i == CHOOSE x \in S : TRUE
         IN  L[i].amount_pending + SumPending(L, S \ {i})

\* C1: every Period Earnings Record - the stored contractor and manager rows
\* and the record dual tracking builds - has amount_paid + amount_pending
\* equal to its paid-basis total, to the cent.
LedgerIdentity ==
    /\ \A i \in DOMAIN contractor_earnings :
          contractor_earnings[i].amount_paid + contractor_earnings[i].amount_pending
              = contractor_earnings[i].contractor_total_earnings
    /\ \A i \in DOMAIN manager_earnings :
          manager_earnings[i].amount_paid + manager_earnings[i].amount_pending
              = manager_earnings[i].total_earnings
    /\ \A p \in Procs :
          req[p].op = "calculate_earnings_with_dual_tracking" =>
              req[p].result[1].amount_paid + req[p].result[1].amount_pending
                  = req[p].result[1].expected_earnings

\* C2: once the deletion of a payment that was recorded just before it has
\* returned, every record has the amounts and status it had before the
\* recording, and no Payment row and no Allocation row of the payment is left.
ReversalInverse ==
    /\ \A p \in Procs :
        (/\ req[p].op = "delete_payment"
         /\ req[p].pc \in {"done", "failed"}
         /\ req[p].before # <<>>) =>
            /\ contractor_earnings = req[p].before[1].earnings
            /\ \A i \in DOMAIN contractor_payments :
                  contractor_payments[i].id # req[p].payment_id
            /\ AllocationsOf(payment_allocations, req[p].payment_id) = <<>>
    /\ \A p \in Procs :
        (/\ req[p].op = "delete_manager_payment"
         /\ req[p].pc \in {"done", "failed"}
         /\ req[p].before # <<>>) =>
            /\ manager_earnings = req[p].before[1].earnings
            /\ ~ LivePayment(req[p].payment_id)
            /\ AllocationsOf(manager_payment_allocations, req[p].payment_id) = <<>>

\* C3: a payment recorded without an allocation list allocates oldest first:
\* every entry targets an outstanding record of the payee with pending > 0, is
\* min(remaining, pending), comes after the entries of earlier periods, and is
\* made only when every outstanding record of an earlier period with pending > 0
\* gets its whole pending amount; a record with pending <= 0 gets nothing; the
\* Allocation rows written are these entries, in this order.
FifoOrder ==
    \A p \in Procs :
        FifoComputed(p) =>
            LET ledger == req[p].before[1].earnings
                allocs == req[p].allocations
                outstanding == OutstandingOf(ledger, req[p].payee)
                written == IF req[p].pc \in {"insert_allocation", "done"}
                           THEN req[p].idx - 1 ELSE req[p].idx
            IN  /\ \A k \in DOMAIN allocs :
                      LET i == allocs[k].earning_id IN
                      /\ i \in outstanding
                      /\ ledger[i].amount_pending > 0
                      /\ allocs[k].amount =
                            Min(RemainingBefore(req[p].amount, allocs, k),
                                ledger[i].amount_pending)
                      /\ allocs[k].amount > 0
                      /\ \A j \in outstanding :
                            (/\ ledger[j].pay_period_begin < ledger[i].pay_period_begin
                             /\ ledger[j].amount_pending > 0) =>
                                GivenTo(allocs, j) = ledger[j].amount_pending
                      /\ \A k2 \in DOMAIN allocs :
                            k2 < k =>
                               /\ allocs[k2].earning_id # i
                               /\ ledger[allocs[k2].earning_id].pay_period_begin
                                     <= ledger[i].pay_period_begin
                /\ \A i \in DOMAIN ledger :
                      ledger[i].amount_pending <= 0 => GivenTo(allocs, i) = 0
                /\ AllocationsOf(payment_allocations, req[p].payment_id) =
                      [k \in 1..written |->
                          [payment_id |-> req[p].payment_id,
                           earning_id |-> allocs[k].earning_id,
                           amount_allocated |-> allocs[k].amount]]

\* C3 happens: a payment has been recorded that pays an older record in full
\* and a strictly newer one in part
FifoOrderWitness ==
    \E p \in Procs :
        /\ FifoDone(p)
        /\ Len(req[p].allocations) = 2
        /\ LET ledger == req[p].before[1].earnings
               a1 == req[p].allocations[1]
               a2 == req[p].allocations[2]
           IN  /\ ledger[a1.earning_id].pay_period_begin
                     < ledger[a2.earning_id].pay_period_begin
               /\ a1.earning_id > a2.earning_id
               /\ a1.amount = ledger[a1.earning_id].amount_pending
               /\ a2.amount < ledger[a2.earning_id].amount_pending

\* C4: a FIFO payment of amount a to a payee whose outstanding records had
\* total pending T allocates min(a, T): the payee's total_paid rises and the
\* total_pending falls by min(a, T), the payment's Allocation rows sum to
\* min(a, T); when a > T every outstanding record ends paid with pending 0 and
\* nothing else changes (no other payee's record, no other Allocation row).
FifoTotal ==
    \A p \in Procs :
        FifoDone(p) =>
            LET ledger == req[p].before[1].earnings
                outstanding == OutstandingOf(ledger, req[p].payee)
                T == SumPending(ledger, outstanding)
                allocated == Min(req[p].amount, T)
                was == get_earnings_summary(ledger, req[p].payee)
                now == get_earnings_summary(contractor_earnings, req[p].payee)
            IN  /\ now.total_paid = was.total_paid + allocated
                /\ now.total_pending = was.total_pending - allocated
                /\ now.total_earned = was.total_earned
                /\ SumAllocated(AllocationsOf(payment_allocations, req[p].payment_id))
                      = allocated
                /\ req[p].amount > T =>
                      \A i \in outstanding :
                          /\ contractor_earnings[i].payment_status = "paid"
                          /\ contractor_earnings[i].amount_pending = 0
                /\ \A i \in DOMAIN ledger :
                      ledger[i].contractor_id # req[p].payee =>
                          contractor_earnings[i] = ledger[i]
                /\ SelectSeq(payment_allocations,
                             LAMBDA r : r.payment_id # req[p].payment_id)
                      = req[p].before[1].allocations

\* C4 happens: a payment larger than the payee's outstanding total has been
\* recorded against two outstanding records, one of them partially paid before
FifoTotalWitness ==
    \E p \in Procs :
        /\ FifoDone(p)
        /\ LET ledger == req[p].before[1].earnings
               outstanding == OutstandingOf(ledger, req[p].payee)
           IN  /\ Cardinality(outstanding) = 2
               /\ req[p].amount > SumPending(ledger, outstanding)
               /\ \E i \in outstanding : ledger[i].amount_paid > 0

\* C5: for every Payment, the Allocation rows of the payment sum to at most
\* the payment's amount.
AllocationsWithinPayment ==
    \A i \in DOMAIN contractor_payments :
        SumAllocated(AllocationsOf(payment_allocations, contractor_payments[i].id))
            <= contractor_payments[i].amount

\* C6: for every record, the Allocation rows that target it sum to at most its
\* paid-basis total and its amount_pending is not negative; a recording with a
\* caller-supplied allocation above the target's pending commits nothing.
AllocationsWithinRecord ==
    /\ \A i \in DOMAIN contractor_earnings :
          /\ SumAllocated(AllocationsTo(payment_allocations, i))
                <= contractor_earnings[i].contractor_total_earnings
          /\ contractor_earnings[i].amount_pending >= 0
    /\ \A p \in Procs :
          (/\ req[p].op = "record_payment"
           /\ req[p].manual # <<>>
           /\ req[p].pc \in {"done", "failed"}
           /\ \E k \in DOMAIN req[p].manual :
                 req[p].manual[k].amount >
                    req[p].before[1].earnings[req[p].manual[k].earning_id].amount_pending)
          => Snapshot = req[p].before[1]

\* C7: the payment_status of every record is the value derived from its
\* amounts: paid if total - amount_paid <= 0, else partially_paid if
\* amount_paid > 0, else unpaid.
StatusDerived ==
    /\ \A i \in DOMAIN contractor_earnings :
          contractor_earnings[i].payment_status =
              DerivedStatus(contractor_earnings[i].contractor_total_earnings,
                            contractor_earnings[i].amount_paid)
    /\ \A i \in DOMAIN manager_earnings :
          manager_earnings[i].payment_status =
              DerivedStatus(manager_earnings[i].total_earnings,
                            manager_earnings[i].amount_paid)

\* C8: a recording that fails leaves no Payment row, no Allocation row and no
\* record update of its payment; a recording that returns 201 has committed the
\* Payment row and every Allocation row of its list.
RecordingAllOrNothing ==
    \A p \in Procs :
        /\ (req[p].op = "record_payment" /\ req[p].pc = "failed") =>
              /\ \A i \in DOMAIN contractor_payments :
                    contractor_payments[i].id # req[p].payment_id
              /\ AllocationsOf(payment_allocations, req[p].payment_id) = <<>>
              /\ contractor_earnings = req[p].before[1].earnings
        /\ (req[p].op = "record_payment" /\ req[p].pc = "done") =>
              /\ \E i \in DOMAIN contractor_payments :
                    contractor_payments[i].id = req[p].payment_id
              /\ Len(AllocationsOf(payment_allocations, req[p].payment_id))
                    = Len(req[p].allocations)

\* C9: when two recordings for the same payee have both returned, what the two
\* payments allocate to a record together is at most the pending amount the
\* record had before either started, and the record's amount_paid is its
\* amount_paid from before plus both allocations.
NoStaleAllocation ==
    \A p, q \in Procs :
        (/\ req[p].op = "record_payment" /\ req[p].pc = "done"
         /\ req[q].op = "record_payment" /\ req[q].pc = "done"
         /\ req[p].payee = req[q].payee
         /\ req[p].payment_id < req[q].payment_id) =>
            LET ledger == req[p].before[1].earnings IN
            \A i \in DOMAIN ledger :
                LET both == GivenTo(req[p].allocations, i)
                            + GivenTo(req[q].allocations, i)
                IN  /\ both <= Max(ledger[i].amount_pending, 0)
                    /\ contractor_earnings[i].amount_paid
                          = ledger[i].amount_paid + both

\* C10: once a deletion of a manager payment and a recording of a manager
\* payment have both ended and no request is running, the ledger is one that
\* running them one after the other leaves: every manager record's amount_paid
\* is the sum of the Allocation rows left for it (what it was, minus the
\* reversed allocation, plus the new one), and its amount_pending and
\* payment_status are the values derived from that amount_paid.
ReversalSerializable ==
    (/\ \A p \in Procs : Free(p)
     /\ \E p, q \in Procs :
           /\ req[p].op = "record_manager_payment"
           /\ req[q].op = "delete_manager_payment"
           /\ req[q].pc = "done") =>
        \A i \in DOMAIN manager_earnings :
            LET e == manager_earnings[i]
                allocated ==
                    SumAllocated(SelectSeq(manager_payment_allocations,
                                           LAMBDA a : a.manager_earning_id = i))
            IN  /\ e.amount_paid = allocated
                /\ e.amount_pending = e.total_earnings - allocated
                /\ e.payment_status = DerivedStatus(e.total_earnings, allocated)

\* the lost update: payment 1 is deleted while payment 2 is recorded, and the
\* record both target ends with less paid than payment 2's allocation
LostUpdateReached ==
    /\ \A p \in Procs : Free(p)
    /\ Len(manager_payments) = 2
    /\ manager_payments[1].deleted /\ ~ manager_payments[2].deleted
    /\ req[1].op = "record_manager_payment" /\ req[1].pc = "done"
    /\ req[1].payment_id = 2
    /\ req[1].before[1].allocations # <<>>
    /\ \E i \in DOMAIN manager_earnings :
          manager_earnings[i].amount_paid <
              SumAllocated(SelectSeq(manager_payment_allocations,
                                     LAMBDA a : a.manager_earning_id = i))

\* what a deletion request has met: an allocation whose record is gone
IrreversibleMet(p) ==
    /\ req[p].op = "delete_manager_payment"
    /\ req[p].result # <<>>

PaidAmounts(table) ==
    [i \in DOMAIN table |->
        <<table[i].amount_paid, table[i].amount_pending, table[i].payment_status>>]

\* C11: when a payment is deleted and one of its allocations targets a record
\* that cannot be reversed because it no longer exists, the deletion fails as
\* a whole: from then on the Payment row stays, its Allocation rows to records
\* that exist stay, and no record's amount_paid, amount_pending or
\* payment_status changes.
DeletionFailsAsAWhole ==
    /\ [](\A p \in Procs :
            IrreversibleMet(p) =>
               /\ LivePayment(req[p].payment_id)
               /\ \A i \in DOMAIN req[p].allocations :
                     LiveManagerEarning(req[p].allocations[i].manager_earning_id)
                        => req[p].allocations[i] \in Rows(manager_payment_allocations))
    /\ [][\A p \in Procs :
            IrreversibleMet(p)' =>
               PaidAmounts(manager_earnings') = PaidAmounts(manager_earnings)]_vars

\* C11: a deletion has passed over an allocation whose record is gone, has
\* reversed another one and has answered 200
PartialReversalReached ==
    \E p \in Procs :
       /\ IrreversibleMet(p)
       /\ req[p].pc = "done"
       /\ req[p].response = "200"
       /\ Len(req[p].allocations) > Len(req[p].result)
       /\ ~ LivePayment(req[p].payment_id)

\* a worker whose last request was a finished Reconciler run for a paystub
\* that has a record
Reconciled(p) ==
    /\ req[p].op = "sync_earnings_payment_status"
    /\ req[p].pc = "done"
    /\ req[p].payment_id \in DOMAIN contractor_earnings

\* C12: the Reconciler run twice in a row for the same paystub with unchanged
\* deposit splits leaves the record exactly as the first run left it, and after
\* every run expected_earnings, actual_payments, amount_paid, amount_pending,
\* payment_variance, variance_status and payment_status are the values
\* computed from the record's total and the splits, whatever they were before.
ReconcilerIdempotent ==
    \A p \in Procs :
       Reconciled(p) =>
          LET row == contractor_earnings[req[p].payment_id]
              deposit == contractor_deposit(paystub_account_splits, req[p].payment_id)
          IN  /\ req[p].before # <<>> => row = req[p].before[1]
              /\ row.expected_earnings = row.contractor_total_earnings
              /\ row.actual_payments = deposit
              /\ row.amount_paid = deposit
              /\ row.amount_pending = row.contractor_total_earnings - deposit
              /\ row.payment_variance = deposit - row.contractor_total_earnings
              /\ row.variance_status =
                    variance_status_of(deposit - row.contractor_total_earnings)
              /\ row.payment_status =
                    sync_payment_status(deposit, row.contractor_total_earnings)

\* C12: a second run in a row has finished on a record with a deposit
ReconcilerIdempotentWitness ==
    \E p \in Procs :
       /\ Reconciled(p)
       /\ req[p].before # <<>>
       /\ req[p].before[1].amount_paid > 0
       /\ req[p].before[1].amount_pending > 0

\* C13: once an operation that created a Deposit Split for a paystub with a
\* Period Earnings Record has completed (no request is running), the
\* Reconciler has run for that paystub: the record's actual_payments is the
\* sum of the paystub's splits whose account owner is the payee.
SplitsReconciled ==
    (\A p \in Procs : Free(p)) =>
       \A i \in DOMAIN contractor_earnings :
          (\E k \in DOMAIN paystub_account_splits :
              paystub_account_splits[k].paystub_id = i)
          => contractor_earnings[i].actual_payments =
                contractor_deposit(paystub_account_splits, i)

\* what allocate_payment_fifo is given of a list: the ids and the pending
\* amounts, in order
IdsAndPending(earnings_list) ==
    [i \in DOMAIN earnings_list |->
        <<earnings_list[i].id, earnings_list[i].amount_pending>>]

RECURSIVE LinesAt(_, _, _)
LinesAt(earnings_list, S, i) ==
    IF i > Len(earnings_list) THEN <<>>
    ELSE (IF i \in S THEN <<earnings_list[i]>> ELSE <<>>)
         \o LinesAt(earnings_list, S, i + 1)

\* C15: identify_bonuses puts each input line in exactly one of its two
\* output lists: the positions of the input split into two disjoint sets that
\* together are all positions, the regular list is the input's lines at the
\* one set and the incentive list the lines at the other, each in input order.
ClassifierPartitions ==
    \A p \in Procs :
       (req[p].op = "identify_bonuses" /\ req[p].pc = "done") =>
          LET lines == req[p].earnings_list
              all == 1..Len(lines)
          IN  \E S \in SUBSET all :
                 /\ req[p].result[1] = LinesAt(lines, S, 1)
                 /\ req[p].result[2] = LinesAt(lines, all \ S, 1)

\* C15: a list of MaxLines lines with a line of both keyword lists has been
\* classified, and neither output list is empty
ClassifierPartitionsWitness ==
    \E p \in Procs :
       /\ req[p].op = "identify_bonuses"
       /\ req[p].pc = "done"
       /\ Len(req[p].earnings_list) = MaxLines
       /\ \E i \in DOMAIN req[p].earnings_list :
             /\ has_regular_keyword[req[p].earnings_list[i].description]
             /\ has_bonus_keyword[req[p].earnings_list[i].description]
       /\ req[p].result[1] # <<>>
       /\ req[p].result[2] # <<>>

\* how far a dictionary's total and margin are from its gross
Divergence(earnings) ==
    Abs(earnings.contractor_total_earnings + earnings.company_margin
        - earnings.client_gross_pay)

\* C16: every earnings result the Rate Engine returns as valid has
\* |contractor_total_earnings + company_margin - client_gross_pay| <= 0.02,
\* and validation rejects with an error every dictionary that diverges by more
\* than 2 cents.
ValidResultsReconcile ==
    \A p \in Procs :
       /\ (/\ req[p].op = "calculate_contractor_earnings"
           /\ req[p].pc = "done"
           /\ req[p].result # <<>>)
          => Divergence(req[p].result[1]) <= 2
       /\ (/\ req[p].op = "validate_earnings"
           /\ req[p].pc = "done"
           /\ Divergence(req[p].earning[1]) > 2)
          => req[p].errors = <<"ValueError">>

\* C16: the Rate Engine has returned a valid result, with regular earnings
\* and an incentive share, for a paystub of MaxLines lines whose gross is less
\* than the payee's total
ValidResultsReconcileWitness ==
    \E p \in Procs :
       /\ req[p].op = "calculate_contractor_earnings"
       /\ req[p].pc = "done"
       /\ req[p].result # <<>>
       /\ Len(req[p].paystub_data[1].earnings) = MaxLines
       /\ req[p].result[1].contractor_bonus_share > 0
       /\ req[p].result[1].contractor_regular_earnings > 0
       /\ req[p].result[1].company_margin < 0

\* a dictionary with a positive total that diverges by 3 cents has been
\* given to validate_earnings
DivergingValidated ==
    \E p \in Procs :
       /\ req[p].op = "validate_earnings"
       /\ req[p].pc = "done"
       /\ req[p].earning[1].contractor_total_earnings > 0
       /\ Divergence(req[p].earning[1]) = 3

\* the Period Earnings Records of a paystub
RecordsOf(paystub_id) ==
    {i \in DOMAIN contractor_earnings :
        contractor_earnings[i].paystub_id = paystub_id}

\* C17: when validation fails for an uploaded paystub (payee total <= 0, or
\* total + margin more than 2 cents from gross) the response carries the
\* error and no Period Earnings Record is persisted for the paystub; otherwise
\* the record is persisted with the calculated amounts and no error is
\* reported, a negative counterparty margin included.
ValidationFailureNotPersisted ==
    \A p \in Procs :
       (/\ req[p].op = "upload_paystub"
        /\ req[p].pc = "done"
        /\ req[p].assignment # <<>>)
       => LET earnings == calculate_earnings(req[p].paystub_data[1],
                                             req[p].assignment[1])
              fails == \/ earnings.contractor_total_earnings <= 0
                       \/ Divergence(earnings) > 2
          IN  /\ earnings.error = "none"
              /\ fails => /\ req[p].errors = <<"ValueError">>
                          /\ RecordsOf(req[p].payment_id) = {}
              /\ ~ fails =>
                    /\ req[p].errors = <<>>
                    /\ \E i \in RecordsOf(req[p].payment_id) :
                          /\ RecordsOf(req[p].payment_id) = {i}
                          /\ contractor_earnings[i].contractor_total_earnings
                                = earnings.contractor_total_earnings
                          /\ contractor_earnings[i].company_margin
                                = earnings.company_margin

\* C17: an upload whose validation failed has answered with the error; its
\* paystub is stored and has no Period Earnings Record
ValidationFailureNotPersistedWitness ==
    \E p \in Procs :
       /\ req[p].op = "upload_paystub"
       /\ req[p].pc = "done"
       /\ req[p].assignment # <<>>
       /\ req[p].errors = <<"ValueError">>
       /\ req[p].payment_id \in DOMAIN paystubs
       /\ RecordsOf(req[p].payment_id) = {}

\* a paystub whose payee total is above its gross has been uploaded and its
\* record, with a negative margin, is in the table
NegativeMarginPersisted ==
    \E p \in Procs :
       /\ req[p].op = "upload_paystub"
       /\ req[p].pc = "done"
       /\ req[p].errors = <<>>
       /\ \E i \in RecordsOf(req[p].payment_id) :
             contractor_earnings[i].company_margin < 0

\* the contract has exactly the one rate that matches its rate_type
ExactlyOneRate(contract) ==
    \/ /\ contract.rate_type = "fixed"
       /\ contract.fixed_hourly_rate # <<>>
       /\ contract.percentage_rate = <<>>
    \/ /\ contract.rate_type = "percentage"
       /\ contract.percentage_rate # <<>>
       /\ contract.fixed_hourly_rate = <<>>

\* every stored contract has exactly the one rate of its rate_type
StoredContractsValid ==
    \A i \in DOMAIN contractor_assignments :
       ExactlyOneRate(contractor_assignments[i])

\* C18: no earnings are computed from a rate contract with both or neither of
\* fixed_hourly_rate / percentage_rate: an upload against such a contract is
\* rejected with an error and leaves no Period Earnings Record.
NoEarningsFromInvalidContract ==
    \A p \in Procs :
       (/\ req[p].op = "upload_paystub"
        /\ req[p].pc = "done"
        /\ req[p].assignment # <<>>
        /\ ~ ExactlyOneRate(req[p].assignment[1]))
       => /\ req[p].errors # <<>>
          /\ RecordsOf(req[p].payment_id) = {}

\* C18: a Period Earnings Record has been computed and stored for a paystub
\* whose contract has both rates set
EarningsFromBothRates ==
    \E p \in Procs :
       /\ req[p].op = "upload_paystub"
       /\ req[p].pc = "done"
       /\ req[p].assignment # <<>>
       /\ req[p].assignment[1].fixed_hourly_rate # <<>>
       /\ req[p].assignment[1].percentage_rate # <<>>
       /\ RecordsOf(req[p].payment_id) # {}

\* the live rows of manager_earnings of a manager assignment and a paystub
ManagerRecordsOf(manager_assignment_id, paystub_id) ==
    {i \in DOMAIN manager_earnings :
        /\ ~ manager_earnings[i].deleted
        /\ manager_earnings[i].manager_assignment_id = manager_assignment_id
        /\ manager_earnings[i].paystub_id = paystub_id}

\* a line is staff time: it has a regular keyword and no supplemental one, or
\* no regular and no incentive keyword
StaffTime(line) ==
    /\ has_regular_keyword[line.description] \/ ~ has_bonus_keyword[line.description]
    /\ ~ has_supplemental_keyword[line.description]

\* the hours of the lines of a list that are staff time
RECURSIVE StaffHours(_)
StaffHours(earnings_list) ==
    IF earnings_list = <<>> THEN 0
    ELSE (IF StaffTime(Head(earnings_list)) THEN Head(earnings_list).hours ELSE 0)
         + StaffHours(Tail(earnings_list))

\* C19: after calculate_manager_earnings has run for a paystub, each active
\* manager assignment of the paystub's contractor assignment has exactly one
\* manager earnings row for the paystub (none when the staff hours are 0), with
\* total_earnings = hours x flat rate rounded half up to the cent, nothing
\* paid and all of it pending; a run on a table that already has the row
\* leaves one row with these values, and changes no other row.
ManagerEarningsIdempotent ==
    \A p \in Procs :
       (/\ req[p].op = "calculate_manager_earnings"
        /\ req[p].pc = "done"
        /\ req[p].payment_id \in DOMAIN paystubs)
       => LET paystub == paystubs[req[p].payment_id]
              before == req[p].before[1]
              hours == StaffHours(paystub.paystub_data.earnings)
          IN  \A a \in DOMAIN manager_assignments :
                 LET ma == manager_assignments[a]
                     rows == ManagerRecordsOf(ma.id, paystub.id)
                     cents == (hours * ma.flat_hourly_rate) \div 2
                     half == (hours * ma.flat_hourly_rate) % 2
                 IN  IF /\ ma.is_active
                        /\ ma.contractor_assignment_id = paystub.contractor_assignment_id
                        /\ hours > 0
                     THEN /\ Cardinality(rows) = 1
                          /\ \A i \in rows :
                                /\ manager_earnings[i].total_earnings = cents + half
                                /\ manager_earnings[i].staff_total_hours = hours
                                /\ manager_earnings[i].flat_hourly_rate
                                      = ma.flat_hourly_rate
                                /\ manager_earnings[i].amount_paid = 0
                                /\ manager_earnings[i].amount_pending = cents + half
                                /\ manager_earnings[i].payment_status = "unpaid"
                                /\ manager_earnings[i].pay_period_begin
                                      = paystub.pay_period_begin
                                /\ i \in DOMAIN before => before[i].id = i
                          /\ Len(manager_earnings) = Max(1, Len(before))
                     ELSE manager_earnings = before

\* C19: a second run has finished on a table that had the row, with a payment
\* allocated to it since the first run and a total that was rounded up
ManagerEarningsIdempotentWitness ==
    \E p \in Procs :
       /\ req[p].op = "calculate_manager_earnings"
       /\ req[p].pc = "done"
       /\ req[p].payment_id \in DOMAIN paystubs
       /\ req[p].before[1] # <<>>
       /\ req[p].before[1][1].amount_paid > 0
       /\ Len(manager_earnings) = 1
       /\ manager_earnings[1].staff_total_hours = 1
       /\ manager_earnings[1].flat_hourly_rate = 1
       /\ manager_earnings[1].total_earnings = 1

\* the place of a status on unpaid -> partially_paid -> paid
StatusRank(payment_status) ==
    CASE payment_status = "unpaid" -> 0
      [] payment_status = "partially_paid" -> 1
      [] payment_status = "paid" -> 2

\* C20: under payment recordings alone the payment_status of a Period
\* Earnings Record never moves back: no step takes a paid record to
\* partially_paid or unpaid, or a partially_paid record to unpaid.
StatusOnlyForward ==
    [][\A i \in DOMAIN contractor_earnings :
          StatusRank(contractor_earnings'[i].payment_status)
             >= StatusRank(contractor_earnings[i].payment_status)]_vars

\* C20: a record is paid while a recording that read it earlier is about to
\* write its status
PaidUnderPendingWrite ==
    \E p \in Procs :
       /\ req[p].op = "record_payment"
       /\ req[p].pc \notin {"idle", "done", "failed"}
       /\ req[p].earning # <<>>
       /\ req[p].earning[1].id \in DOMAIN contractor_earnings
       /\ req[p].earning[1].payment_status # "paid"
       /\ contractor_earnings[req[p].earning[1].id].payment_status = "paid"

\* the file of the upload had a paystub in the table when the upload began
FileWasUploaded(p) ==
    \E i \in DOMAIN req[p].before[1].paystubs :
       req[p].before[1].paystubs[i].file_hash = req[p].file_hash

\* C21: an upload of a file from which a paystub is stored is answered 409 and
\* adds no paystub and no earnings record.
DuplicateFileRejected ==
    \A p \in Procs :
       (/\ req[p].op = "upload_paystub"
        /\ req[p].pc \in {"done", "failed"}
        /\ FileWasUploaded(p))
       => /\ req[p].response = "409"
          /\ paystubs = req[p].before[1].paystubs
          /\ contractor_earnings = req[p].before[1].earnings

\* C21: a file with a stored paystub and earnings record has been uploaded
\* again and the upload has answered
DuplicateFileRejectedWitness ==
    \E p \in Procs :
       /\ req[p].op = "upload_paystub"
       /\ req[p].pc \in {"done", "failed"}
       /\ FileWasUploaded(p)
       /\ req[p].before[1].earnings # <<>>

\* two stored paystubs have the same file hash
FileStoredTwice ==
    \E i, j \in DOMAIN paystubs :
       i # j /\ paystubs[i].file_hash = paystubs[j].file_hash

\* the splits of a paystub into accounts of the payee
PayeeSplits(paystub_id) ==
    LET payee(split) == /\ split.paystub_id = paystub_id
                        /\ split.owner_type = "contractor"
    IN  SelectSeq(paystub_account_splits, payee)

\* actual, variance and status as the claim C22 states them
ThreeValues(expected, paystub_id) ==
    LET actual == SumAmount(PayeeSplits(paystub_id))
        variance == actual - expected
    IN  [actual_payments |-> actual,
         payment_variance |-> variance,
         variance_status |-> IF variance > 1 THEN "overpaid"
                             ELSE IF variance < -1 THEN "underpaid"
                             ELSE "correct"]

ThreeValuesOf(r) ==
    [actual_payments |-> r.actual_payments,
     payment_variance |-> r.payment_variance,
     variance_status |-> r.variance_status]

AdminSplitLeftOut ==
    \E p \in Procs :
       /\ req[p].op = "sync_earnings_payment_status"
       /\ req[p].pc = "done"
       /\ req[p].payment_id \in DOMAIN contractor_earnings
       /\ contractor_earnings[req[p].payment_id].variance_status = "underpaid"
       /\ contractor_earnings[req[p].payment_id].actual_payments = 0
       /\ \E i \in DOMAIN paystub_account_splits :
             /\ paystub_account_splits[i].paystub_id = req[p].payment_id
             /\ paystub_account_splits[i].owner_type = "admin"

\* a Reconciler run has written a record as underpaid
UnderpaidWritten ==
    \E p \in Procs :
       /\ req[p].op = "sync_earnings_payment_status"
       /\ req[p].pc = "done"
       /\ req[p].payment_id \in DOMAIN contractor_earnings
       /\ contractor_earnings[req[p].payment_id].variance_status = "underpaid"

\* C23: after the Reconciler has run for a paystub the record's amount_pending
\* is the actual payee deposit total (actual_payments), whichever of the two
\* implementations ran: the record sync_earnings_payment_status has written
\* and the record calculate_earnings_with_dual_tracking has returned.
PendingFromActual ==
    \A p \in Procs :
       (req[p].pc = "done" /\ req[p].payment_id \in DOMAIN contractor_earnings)
       => /\ req[p].op = "sync_earnings_payment_status"
             => contractor_earnings[req[p].payment_id].amount_pending
                   = contractor_earnings[req[p].payment_id].actual_payments
          /\ req[p].op = "calculate_earnings_with_dual_tracking"
             => req[p].result[1].amount_pending = req[p].result[1].actual_payments

\* C23: a Reconciler run has written a record whose amount_pending is what is
\* left of the expected earnings and differs from the deposit total, for a
\* paystub with a payee-owned split
PendingFromExpected ==
    \E p \in Procs :
       /\ req[p].op = "sync_earnings_payment_status"
       /\ req[p].pc = "done"
       /\ req[p].payment_id \in DOMAIN contractor_earnings
       /\ PayeeSplits(req[p].payment_id) # <<>>
       /\ LET r == contractor_earnings[req[p].payment_id] IN
             /\ r.amount_pending = r.expected_earnings - r.actual_payments
             /\ r.amount_pending # r.actual_payments

\* only the dual-tracking call is held to the statement of C23
DualPendingFromActual ==
    \A p \in Procs :
       (/\ req[p].pc = "done"
        /\ req[p].op = "calculate_earnings_with_dual_tracking")
       => req[p].result[1].amount_pending = req[p].result[1].actual_payments

\* the positions of the lines the Classifier puts in the regular bucket
RegularBucket(earnings_list) ==
    {i \in DOMAIN earnings_list :
        \/ has_regular_keyword[earnings_list[i].description]
        \/ ~ has_bonus_keyword[earnings_list[i].description]}

\* the positions of the lines that pay in fixed-hourly mode
PayingLines(earnings_list) ==
    {i \in RegularBucket(earnings_list) :
        /\ earnings_list[i].hours > 0
        /\ ~ has_supplemental_keyword[earnings_list[i].description]}

\* the positions of the 'regular' lines that carry a rate
BaseLines(earnings_list) ==
    {i \in DOMAIN earnings_list :
        /\ has_literal[earnings_list[i].description].regular
        /\ earnings_list[i].rate > 0}

\* the base rate: the rate of the first 'regular' line that carries one
BaseRateOf(earnings_list) ==
    earnings_list[CHOOSE i \in BaseLines(earnings_list) :
                     \A j \in BaseLines(earnings_list) : i <= j].rate

PremiumLineExists(earnings_list) ==
    \E i \in DOMAIN earnings_list :
       has_literal[earnings_list[i].description].overtime_premium

\* twice the line's rate over the base rate, rounded half up: the ratio in
\* steps of 0.5
RatioInHalves(line, earnings_list) ==
    RoundHalfUp(2 * line.rate, BaseRateOf(earnings_list))

\* twice the multiplier of a paying line as the statement of C24 gives it
StatedMultiplier(line, earnings_list) ==
    IF /\ has_literal[line.description].overtime
       /\ PremiumLineExists(earnings_list)
    THEN 3
    ELSE IF /\ has_literal[line.description].double_time
            /\ ~ has_literal[line.description].overtime
    THEN 4
    ELSE RatioInHalves(line, earnings_list)

\* twice the multiplier of a paying line, with the defaults for a line
\* without a rate and a period without a base rate: 1.5 for an overtime
\* line, 1.0 for any other
MultiplierWithDefaults(line, earnings_list) ==
    IF /\ has_literal[line.description].overtime
       /\ PremiumLineExists(earnings_list)
    THEN 3
    ELSE IF /\ has_literal[line.description].double_time
            /\ ~ has_literal[line.description].overtime
    THEN 4
    ELSE IF line.rate > 0 /\ BaseLines(earnings_list) # {}
    THEN RatioInHalves(line, earnings_list)
    ELSE IF has_literal[line.description].overtime THEN 3
    ELSE 2

\* the sum over the positions S of hours x fixed rate x multiplier, each
\* rounded half up to the cent
RECURSIVE StatedFixedPay(_, _, _)
StatedFixedPay(earnings_list, fixed_rate, S) ==
    IF S = {} THEN 0
    ELSE LET i == CHOOSE x \in S : TRUE IN
         RoundHalfUp(earnings_list[i].hours * fixed_rate
                        * StatedMultiplier(earnings_list[i], earnings_list), 2)
         + StatedFixedPay(earnings_list, fixed_rate, S \ {i})

RECURSIVE FixedPayWithDefaults(_, _, _)
FixedPayWithDefaults(earnings_list, fixed_rate, S) ==
    IF S = {} THEN 0
    ELSE LET i == CHOOSE x \in S : TRUE IN
         RoundHalfUp(earnings_list[i].hours * fixed_rate
                        * MultiplierWithDefaults(earnings_list[i], earnings_list), 2)
         + FixedPayWithDefaults(earnings_list, fixed_rate, S \ {i})

\* a result of the Rate Engine for a fixed-hourly contract
FixedResult(p) ==
    /\ req[p].op = "calculate_contractor_earnings"
    /\ req[p].pc = "done"
    /\ req[p].result # <<>>
    /\ req[p].assignment[1].rate_type = "fixed"

RatioPaid ==
    \E p \in Procs :
       /\ FixedResult(p)
       /\ LET earnings_list == req[p].paystub_data[1].earnings IN
             \E i \in PayingLines(earnings_list) :
                /\ earnings_list[i].rate > 0
                /\ BaseLines(earnings_list) # {}
                /\ earnings_list[i].description = "Mileage"
                /\ RatioInHalves(earnings_list[i], earnings_list) # 2

\* a fixed-hourly result for a period with a base rate where a line without a
\* rate is paid at 1.0
DefaultPaid ==
    \E p \in Procs :
       /\ FixedResult(p)
       /\ LET earnings_list == req[p].paystub_data[1].earnings IN
             /\ BaseLines(earnings_list) # {}
             /\ \E i \in PayingLines(earnings_list) :
                   /\ earnings_list[i].rate = 0
                   /\ earnings_list[i].description = "Mileage"

\* the positions of the lines the Classifier puts in the incentive bucket
IncentiveBucket(earnings_list) ==
    DOMAIN earnings_list \ RegularBucket(earnings_list)

\* the sum of the dollar amounts of the lines at the positions S
RECURSIVE AmountsAt(_, _)
AmountsAt(earnings_list, S) ==
    IF S = {} THEN 0
    ELSE LET i == CHOOSE x \in S : TRUE IN
         earnings_list[i].amount + AmountsAt(earnings_list, S \ {i})

\* a result the Rate Engine returned
RateResult(p) ==
    /\ req[p].op = "calculate_contractor_earnings"
    /\ req[p].pc = "done"
    /\ req[p].result # <<>>

\* C25: in percentage mode the payee's regular earnings are
\* percentage_rate/100 x the sum of the amounts of all regular-bucket lines,
\* supplemental lines included, rounded half up to the cent; in both modes
\* the incentive share is bonus_split_percentage/100 x the sum of the
\* amounts of the incentive-bucket lines, to the cent; no incentive amount
\* enters the regular earnings.
PercentageModeFormula ==
    \A p \in Procs :
       RateResult(p)
       => LET earnings_list == req[p].paystub_data[1].earnings
              assignment == req[p].assignment[1]
              result == req[p].result[1]
          IN  /\ result.contractor_bonus_share
                    = RoundHalfUp(assignment.bonus_split_percentage
                                     * AmountsAt(earnings_list,
                                                 IncentiveBucket(earnings_list)),
                                  100)
              /\ assignment.rate_type = "percentage"
                 => result.contractor_regular_earnings
                       = RoundHalfUp(assignment.percentage_rate[1]
                                        * AmountsAt(earnings_list,
                                                    RegularBucket(earnings_list)),
                                     100)

\* C25: a percentage result for a period with a supplemental line and an
\* incentive line, each with an amount: the one is in the regular earnings,
\* the other in the incentive share only
PercentageModeFormulaWitness ==
    \E p \in Procs :
       /\ RateResult(p)
       /\ req[p].assignment[1].rate_type = "percentage"
       /\ req[p].assignment[1].percentage_rate = <<100>>
       /\ req[p].assignment[1].bonus_split_percentage = 50
       /\ LET earnings_list == req[p].paystub_data[1].earnings IN
             /\ \E i, j \in DOMAIN earnings_list :
                   /\ earnings_list[i].description = "Overtime Premium"
                   /\ earnings_list[j].description = "Bonus"
                   /\ req[p].result[1].contractor_regular_earnings
                         = earnings_list[i].amount
                   /\ earnings_list[j].amount = MaxLineAmount
                   /\ req[p].result[1].contractor_bonus_share
                         = RoundHalfUp(earnings_list[j].amount, 2)

\* a fixed-hourly result with an incentive share
FixedWithIncentive ==
    \E p \in Procs :
       /\ FixedResult(p)
       /\ req[p].result[1].contractor_bonus_share > 0
       /\ req[p].result[1].contractor_regular_earnings > 0

\* a finished run of the Classifier
Classified(p) == req[p].op = "identify_bonuses" /\ req[p].pc = "done"

\* C26: the Classifier tests the regular keywords first: a line that matches
\* a regular keyword is regular even when it also matches an incentive
\* keyword ('Holiday Bonus'), a line that matches only an incentive keyword
\* is incentive ('Bonus'), a line that matches no keyword is regular
\* ('Mileage'); the match does not depend on the case of the description.
RegularKeywordsFirst ==
    \A p \in Procs :
       Classified(p)
       => LET earnings_list == req[p].earnings_list
              regular == Rows(req[p].result[1])
              incentive == Rows(req[p].result[2])
          IN  /\ req[p].result[1]
                    = LinesAt(earnings_list, RegularBucket(earnings_list), 1)
              /\ req[p].result[2]
                    = LinesAt(earnings_list, IncentiveBucket(earnings_list), 1)
              /\ \A i \in DOMAIN earnings_list :
                    LET line == earnings_list[i] IN
                    /\ line.description
                          \in {"Holiday Bonus", "Regular", "Overtime",
                               "Overtime Premium", "Mileage", "Double Time"}
                       => line \in regular /\ line \notin incentive
                    /\ line.description = "Bonus"
                       => line \in incentive /\ line \notin regular

\* C26: a 'Holiday Bonus' line and a 'Bonus' line have been classified
\* together: the first is regular, the second incentive
RegularKeywordsFirstWitness ==
    \E p \in Procs :
       /\ Classified(p)
       /\ \E i, j \in DOMAIN req[p].earnings_list :
             /\ req[p].earnings_list[i].description = "Holiday Bonus"
             /\ req[p].earnings_list[j].description = "Bonus"
             /\ req[p].result[1] = <<req[p].earnings_list[i]>>
             /\ req[p].result[2] = <<req[p].earnings_list[j]>>

\* a line without any keyword has been classified as regular
UnmatchedIsRegular ==
    \E p \in Procs :
       /\ Classified(p)
       /\ \E i \in DOMAIN req[p].earnings_list :
             /\ req[p].earnings_list[i].description = "Mileage"
             /\ ~ has_regular_keyword["Mileage"]
             /\ ~ has_bonus_keyword["Mileage"]
             /\ req[p].earnings_list[i] \in Rows(req[p].result[1])

\* the three payment fields of a record
PaymentFields(r) ==
    [amount_paid |-> r.amount_paid, amount_pending |-> r.amount_pending,
     payment_status |-> r.payment_status]

\* a record that was outstanding for the payee when the request began
OutstandingFor(r, payee) ==
    /\ r.contractor_id = payee
    /\ r.payment_status \in {"unpaid", "partially_paid"}

\* the records that a finished recording of worker p found changed, among
\* those that existed when it began
ChangedBy(p) ==
    {i \in DOMAIN req[p].before[1].earnings :
        PaymentFields(contractor_earnings[i])
           # PaymentFields(req[p].before[1].earnings[i])}

\* a recording of worker p that has ended
Recorded(p) ==
    /\ req[p].op = "record_payment"
    /\ req[p].pc \in {"done", "failed"}

\* C27: a payment recorded for payee P, by FIFO or with a caller-supplied
\* allocation list, changes amount_paid, amount_pending and payment_status
\* only of records of P that were unpaid or partially paid when the
\* recording began; the records of other payees and the paid records keep
\* the three values.
OnlyOutstandingOfPayeeChange ==
    \A p \in Procs :
       Recorded(p)
       => \A i \in ChangedBy(p) :
             OutstandingFor(req[p].before[1].earnings[i], req[p].payee)

\* C27: a recording for one payee with a caller-supplied list has changed a
\* record of another payee
OtherPayeeRecordChanged ==
    \E p \in Procs :
       /\ Recorded(p)
       /\ req[p].manual # <<>>
       /\ \E i \in ChangedBy(p) :
             req[p].before[1].earnings[i].contractor_id # req[p].payee

\* a recording with a caller-supplied list has changed a record that was
\* already paid
PaidRecordChanged ==
    \E p \in Procs :
       /\ Recorded(p)
       /\ req[p].manual # <<>>
       /\ \E i \in ChangedBy(p) :
             /\ req[p].before[1].earnings[i].contractor_id = req[p].payee
             /\ req[p].before[1].earnings[i].payment_status = "paid"

\* the statement of C27 for the recordings without a caller-supplied list
FifoChangesOnlyOutstandingOfPayee ==
    \A p \in Procs :
       (Recorded(p) /\ req[p].manual = <<>>)
       => \A i \in ChangedBy(p) :
             OutstandingFor(req[p].before[1].earnings[i], req[p].payee)

\* a FIFO recording has changed a record of its payee while a record of
\* another payee was outstanding as well
FifoLeftOtherPayeeAlone ==
    \E p \in Procs :
       /\ Recorded(p)
       /\ req[p].manual = <<>>
       /\ ChangedBy(p) # {}
       /\ \E i \in DOMAIN req[p].before[1].earnings :
             /\ req[p].before[1].earnings[i].contractor_id # req[p].payee
             /\ req[p].before[1].earnings[i].payment_status = "unpaid"

\* the operations C28 is about
SurfacingOps ==
    {"record_payment", "sync_earnings_payment_status",
     "calculate_manager_earnings"}

\* C28: when a remote persistence call fails during an Allocator run, a
\* Reconciler run or a flat-rate earnings run, the run ends with an error:
\* it does not return as a run that went well and it does not go on to
\* update anything after a write that did not succeed.
FailuresSurfaced ==
    \A p \in Procs :
       (req[p].op \in SurfacingOps /\ req[p].errors # <<>>)
       => req[p].pc = "failed"

\* C28: a Reconciler run whose update raised has returned like a run that
\* went well, and the record is as it was
ReconcilerReturnedAfterFailure ==
    \E p \in Procs :
       /\ req[p].op = "sync_earnings_payment_status"
       /\ req[p].pc = "done"
       /\ req[p].errors = <<"Exception">>
       /\ req[p].response = "none"
       /\ req[p].payment_id \in DOMAIN contractor_earnings
       /\ contractor_earnings[req[p].payment_id].expected_earnings = 0

\* a flat-rate run in which a remote call raised has returned, and the
\* paystub with hours and an active manager assignment has no record
FlatRateReturnedAfterFailure ==
    \E p \in Procs :
       /\ req[p].op = "calculate_manager_earnings"
       /\ req[p].pc = "done"
       /\ req[p].errors = <<"Exception">>
       /\ req[p].payment_id \in DOMAIN paystubs
       /\ manager_earnings = <<>>

\* a recording has answered 201 after an insert of an Allocation row that
\* stored nothing, with the record updated for the allocation
UpdatedAfterLostInsert ==
    \E p \in Procs :
       /\ req[p].op = "record_payment"
       /\ req[p].pc = "done"
       /\ req[p].response = "201"
       /\ req[p].errors = <<"no row">>
       /\ AllocationsOf(payment_allocations, req[p].payment_id) = <<>>
       /\ contractor_earnings # req[p].before[1].earnings

\* the exceptions of a recording are surfaced: a recording in which a remote
\* call raised has ended with a 500
RecordingExceptionsSurfaced ==
    \A p \in Procs :
       (req[p].op = "record_payment" /\ req[p].pc = "failed")
       => req[p].response = "500"

\* a recording has ended with a 500 after its Payment row was inserted
RecordingFailed ==
    \E p \in Procs :
       /\ req[p].op = "record_payment"
       /\ req[p].pc = "failed"
       /\ req[p].response = "500"

\* the Allocation rows of the manager ledger that target a record
ManagerAllocationsTo(earning_id) ==
    SelectSeq(manager_payment_allocations,
              LAMBDA a : a.manager_earning_id = earning_id)

\* no request is running
Quiescent == \A p \in Procs : Free(p)

\* C29: whenever no request is running, the amount_paid of every record of
\* both ledgers is the sum of amount_allocated of the Allocation rows that
\* target it - also after a flat-rate run upserted a record that has
\* allocations, after a Reconciler run on a contractor record that has
\* allocations, and after an Allocation insert that returned no row.
PaidIsSumOfAllocations ==
    Quiescent
    => /\ \A i \in DOMAIN contractor_earnings :
             contractor_earnings[i].amount_paid
                = SumAllocated(AllocationsTo(payment_allocations, i))
       /\ \A i \in DOMAIN manager_earnings :
             ~ manager_earnings[i].deleted
             => manager_earnings[i].amount_paid
                   = SumAllocated(ManagerAllocationsTo(i))

\* C29: a flat-rate run has upserted a record that had an Allocation row:
\* the record is unpaid with amount_paid 0 and the row is still there
UpsertResetPaid ==
    \E p \in Procs :
       /\ req[p].op = "calculate_manager_earnings"
       /\ req[p].pc = "done"
       /\ \E i \in DOMAIN manager_earnings :
             /\ req[p].before[1] # <<>>
             /\ req[p].before[1][i].amount_paid > 0
             /\ manager_earnings[i].amount_paid = 0
             /\ SumAllocated(ManagerAllocationsTo(i)) > 0

\* a Reconciler run has written the deposit total as amount_paid of a record
\* whose Allocation rows sum to another amount
ReconcilerOverwrotePaid ==
    \E p \in Procs :
       /\ req[p].op = "sync_earnings_payment_status"
       /\ req[p].pc = "done"
       /\ req[p].payment_id \in DOMAIN contractor_earnings
       /\ LET r == contractor_earnings[req[p].payment_id] IN
             /\ r.amount_paid = r.actual_payments
             /\ r.actual_payments > 0
             /\ SumAllocated(AllocationsTo(payment_allocations, r.id)) > 0
             /\ r.amount_paid
                   # SumAllocated(AllocationsTo(payment_allocations, r.id))

\* a recording has returned after an insert that stored nothing: the record
\* has more paid than its Allocation rows sum to
PaidWithoutAllocation ==
    \E p \in Procs :
       /\ req[p].op = "record_payment"
       /\ req[p].pc = "done"
       /\ req[p].errors = <<"no row">>
       /\ \E i \in DOMAIN contractor_earnings :
             contractor_earnings[i].amount_paid
                > SumAllocated(AllocationsTo(payment_allocations, i))

\* the statement of C29 for the two Allocators and the deletion of manager
\* payments alone
AllocatorsKeepPaidInStep ==
    Quiescent
    => /\ \A i \in DOMAIN contractor_earnings :
             contractor_earnings[i].amount_paid
                = SumAllocated(AllocationsTo(payment_allocations, i))
       /\ \A i \in DOMAIN manager_earnings :
             manager_earnings[i].amount_paid
                = SumAllocated(ManagerAllocationsTo(i))

\* a ledger of contractor records and a ledger of manager records correspond:
\* record by record the same period, total, amount_paid, amount_pending and
\* payment_status, for the payees c1 and m1
Corresponding(contractor_ledger, manager_ledger) ==
    /\ Len(contractor_ledger) = Len(manager_ledger)
    /\ \A i \in DOMAIN contractor_ledger :
          /\ contractor_ledger[i].contractor_id = "c1"
          /\ manager_ledger[i].manager_id = "m1"
          /\ ~ manager_ledger[i].deleted
          /\ contractor_ledger[i].pay_period_begin
                = manager_ledger[i].pay_period_begin
          /\ contractor_ledger[i].contractor_total_earnings
                = manager_ledger[i].total_earnings
          /\ PaymentFields(contractor_ledger[i]) = PaymentFields(manager_ledger[i])

\* the Allocation rows of a payment as pairs of record and amount
ContractorRowsOf(payment_id) ==
    LET rows == AllocationsOf(payment_allocations, payment_id) IN
    [k \in DOMAIN rows |-> <<rows[k].earning_id, rows[k].amount_allocated>>]

ManagerRowsOf(payment_id) ==
    LET rows == AllocationsOf(manager_payment_allocations, payment_id) IN
    [k \in DOMAIN rows |->
        <<rows[k].manager_earning_id, rows[k].amount_allocated>>]

\* worker p has recorded a contractor payment by FIFO and worker q a manager
\* payment of the same amount, from corresponding ledgers whose outstanding
\* records the two selects returned in the same order
RecordedAlike(p, q) ==
    /\ req[p].op = "record_payment"
    /\ req[p].manual = <<>>
    /\ req[p].pc = "done"
    /\ req[p].payee = "c1"
    /\ req[q].op = "record_manager_payment"
    /\ req[q].pc = "done"
    /\ req[q].payee = "m1"
    /\ req[p].amount = req[q].amount
    /\ Corresponding(req[p].before[1].earnings, req[q].before[1].earnings)
    /\ [k \in DOMAIN req[p].unpaid |-> req[p].unpaid[k].id]
          = [k \in DOMAIN req[q].unpaid |-> req[q].unpaid[k].id]

\* C30: the manager Allocator (record_manager_payment) and the contractor
\* FIFO Allocator (record_payment without a caller-supplied list), run from
\* corresponding ledgers with the same amount and without interference,
\* create the same Allocation rows (same records, same amounts, same order)
\* and leave corresponding records with the same amount_paid, amount_pending
\* and payment_status.
AllocatorsEquivalent ==
    \A p, q \in Procs :
       RecordedAlike(p, q)
       => /\ ContractorRowsOf(req[p].payment_id) = ManagerRowsOf(req[q].payment_id)
          /\ Corresponding(contractor_earnings, manager_earnings)

\* C30: the two Allocators have each recorded their second payment, of the
\* same amount, from corresponding ledgers with a partially paid record and
\* an unpaid one, and each has allocated to both records
AllocatorsEquivalentWitness ==
    \E p, q \in Procs :
       /\ RecordedAlike(p, q)
       /\ req[p].payment_id = 2
       /\ req[q].payment_id = 2
       /\ Len(ContractorRowsOf(2)) = 2
       /\ \E i \in DOMAIN req[p].before[1].earnings :
             req[p].before[1].earnings[i].payment_status = "partially_paid"
       /\ \E i \in DOMAIN contractor_earnings :
             contractor_earnings[i].payment_status = "paid"

\* the two Allocators have recorded payments larger than everything that was
\* outstanding
BothOverpaid ==
    \E p, q \in Procs :
       /\ RecordedAlike(p, q)
       /\ req[p].before[1].earnings # <<>>
       /\ SumAllocated(AllocationsOf(payment_allocations, req[p].payment_id))
             < req[p].amount

====
